---- MODULE Spec2Model ----
(***************************************************************************)
(* Model of the Terabox extraction core: the domain registry and URL      *)
(* normaliser (mirrors.py), the result cache and retry wrapper (utils.py)  *)
(* and the strategy runner TeraboxExtractor.extract (terabox_extractor.py).*)
(* URLs are TLA+ strings; the regular expressions of the registry are      *)
(* data interpreted by a small backtracking matcher.                       *)
(***************************************************************************)
EXTENDS Integers, Sequences, FiniteSets, TLC

(***************************************************************************)
(* Strings.                                                                *)
(***************************************************************************)
Lowers == "abcdefghijklmnopqrstuvwxyz"
Uppers == "ABCDEFGHIJKLMNOPQRSTUVWXYZ"
Digits == "0123456789"

CharsOf(s) == {SubSeq(s, i, i) : i \in 1..Len(s)}

At(s, i) == SubSeq(s, i, i)

\* str.lower() on one character
LowerChar(c) ==
    IF c \in CharsOf(Uppers)
    THEN At(Lowers, CHOOSE i \in 1..Len(Uppers) : At(Uppers, i) = c)
    ELSE c

RECURSIVE LowerFrom(_, _)
LowerFrom(s, i) ==
    IF i > Len(s) THEN "" ELSE LowerChar(At(s, i)) \o LowerFrom(s, i + 1)

\* str.lower()
Lower(s) == LowerFrom(s, 1)

\* s[i:i+len(lit)] == lit
StartsAt(s, i, lit) ==
    /\ i >= 1
    /\ i + Len(lit) - 1 <= Len(s)
    /\ SubSeq(s, i, i + Len(lit) - 1) = lit

\* `needle in hay`
Contains(hay, needle) ==
    \E i \in 1..(Len(hay) - Len(needle) + 1) : StartsAt(hay, i, needle)

\* hay.find(needle, from); 0 when absent
RECURSIVE Find(_, _, _)
Find(hay, needle, from) ==
    IF from + Len(needle) - 1 > Len(hay) THEN 0
    ELSE IF StartsAt(hay, from, needle) THEN from
    ELSE Find(hay, needle, from + 1)

\* s[i:] (1-based i)
From(s, i) == IF i > Len(s) THEN "" ELSE SubSeq(s, i, Len(s))

\* s.split(sep) for a one-character separator
RECURSIVE Split(_, _)
Split(s, sep) ==
    LET k == Find(s, sep, 1)
    IN  IF k = 0 THEN <<s>>
        ELSE <<SubSeq(s, 1, k - 1)>> \o Split(From(s, k + 1), sep)

\* s.strip(ch) for a one-character ch
RECURSIVE LStrip(_, _)
LStrip(s, ch) ==
    IF Len(s) > 0 /\ At(s, 1) = ch THEN LStrip(From(s, 2), ch) ELSE s

RECURSIVE RStrip(_, _)
RStrip(s, ch) ==
    IF Len(s) > 0 /\ At(s, Len(s)) = ch
    THEN RStrip(SubSeq(s, 1, Len(s) - 1), ch) ELSE s

Strip(s, ch) == RStrip(LStrip(s, ch), ch)

(***************************************************************************)
(* Character classes of the regular expressions.                          *)
(***************************************************************************)
WordChars == CharsOf(Lowers) \cup CharsOf(Uppers) \cup CharsOf(Digits) \cup {"_"}
\* [a-zA-Z0-9_-] and [\w-] for ASCII input
IdChars == WordChars \cup {"-"}
WhiteSpace == {" "}

InClass(c, cls) ==
    CASE cls = "id" -> c \in IdChars
      [] cls = "nonspace" -> c \notin WhiteSpace
      [] OTHER -> FALSE

\* length of the longest run of characters of class cls starting at s[i]
RECURSIVE RunLen(_, _, _)
RunLen(s, i, cls) ==
    IF i > Len(s) \/ ~InClass(At(s, i), cls) THEN 0
    ELSE 1 + RunLen(s, i + 1, cls)

(***************************************************************************)
(* Regular expressions.  A pattern is a sequence of elements:             *)
(*   Lit(alts)      an ordered alternation of literal strings              *)
(*   Opt(body)      (?:body)?, greedy                                      *)
(*   Run(cls, min)  cls{min,}, greedy                                      *)
(*   Cap(cls, min)  (cls{min,}), greedy, the capture group that is read    *)
(* Match tries the alternatives in the priority order of a backtracking   *)
(* matcher and yields <<capture start, capture end, end>> or Fail.        *)
(***************************************************************************)
Lit(alts) == [t |-> "lit", alts |-> alts]
Opt(body) == [t |-> "opt", body |-> body]
Run(cls, min) == [t |-> "run", cls |-> cls, min |-> min, cap |-> FALSE]
Cap(cls, min) == [t |-> "run", cls |-> cls, min |-> min, cap |-> TRUE]

Fail == << >>

RECURSIVE Match(_, _, _, _)
RECURSIVE MatchAlts(_, _, _, _, _, _)
RECURSIVE MatchRun(_, _, _, _, _, _)

\* the first try if it matched, otherwise the next one
OrElse(first, next) == IF first # Fail THEN first ELSE next

Match(pat, t, i, cap) ==
    IF pat = << >> THEN <<cap[1], cap[2], i>>
    ELSE LET e == Head(pat)
             rest == Tail(pat)
         IN  CASE e.t = "lit" -> MatchAlts(e.alts, 1, rest, t, i, cap)
               [] e.t = "opt" ->
                    OrElse(Match(e.body \o rest, t, i, cap),
                           Match(rest, t, i, cap))
               [] e.t = "run" ->
                    MatchRun(e, RunLen(t, i, e.cls), rest, t, i, cap)

MatchAlts(alts, k, rest, t, i, cap) ==
    IF k > Len(alts) THEN Fail
    ELSE OrElse(IF StartsAt(t, i, alts[k])
                THEN Match(rest, t, i + Len(alts[k]), cap)
                ELSE Fail,
                MatchAlts(alts, k + 1, rest, t, i, cap))

MatchRun(e, n, rest, t, i, cap) ==
    IF n < e.min THEN Fail
    ELSE OrElse(Match(rest, t, i + n,
                      IF e.cap THEN <<i, i + n - 1>> ELSE cap),
                MatchRun(e, n - 1, rest, t, i, cap))

\* pattern.search(t): the match at the leftmost start position
RECURSIVE SearchFrom(_, _, _)
SearchFrom(pat, t, i) ==
    IF i > Len(t) + 1 THEN Fail
    ELSE OrElse(Match(pat, t, i, <<0, 0>>), SearchFrom(pat, t, i + 1))

\* re.search(pat, s) is not None
Search(pat, s) == SearchFrom(pat, s, 1) # Fail

\* re.compile(pat, re.IGNORECASE).search(s): the text of the last group,
\* "" when there is no match (every pattern's group is non-empty)
Group(m, s) ==
    IF m = Fail THEN [ok |-> FALSE, v |-> ""]
    ELSE [ok |-> TRUE, v |-> SubSeq(s, m[1], m[2])]

SearchGroupI(pat, s) == Group(SearchFrom(pat, Lower(s), 1), s)

(***************************************************************************)
(* Domain registry (mirrors.py).                                           *)
(***************************************************************************)
PRIMARY_DOMAINS ==
    <<"terabox.com", "teraboxapp.com", "1024tera.com", "terabox.app",
      "terabox.tech", "terabox.fun">>

OFFICIAL_MIRRORS ==
    <<"gcloud.live", "dubox.com", "pan.baidu.com">>

LINK_SITES ==
    <<"teraboxlink.com", "teraboxlinks.site", "terasharelink.com",
      "teralink.me", "teraboxshare.com", "terafileshare.com",
      "teraboxdownload.com", "teradl.com", "tera-link.com",
      "terabox.link", "teraboxurl.com">>

MIRROR_DOMAINS ==
    <<"mirrobox.com", "nephobox.com", "4funbox.com", "1024terabox.com",
      "freeterabox.com", "momerybox.com", "tibibox.com", "xhobox.com",
      "happybox.org", "boxtera.net", "teracloud.me", "cloudtera.net">>

ALTERNATIVE_DOMAINS ==
    <<"terabox.co", "terabox.net", "terabox.org", "terabox.io",
      "terabox.cloud", "terabox.me", "teraboxcdn.com",
      "terabox-cdn.com", "tera-box.com", "tera.box">>

API_DOMAINS ==
    <<"d.terabox.com", "dl.teraboxapp.com", "data.teraboxapp.com",
      "www.terabox.com", "www.teraboxapp.com", "www.1024tera.com",
      "api.terabox.com", "m.terabox.com", "pan.terabox.com",
      "c.terabox.com", "d2.terabox.com", "d3.terabox.com">>

THIRD_PARTY_EXTRACTORS ==
    <<"teradownloader.com", "terabox.hnn.workers.dev",
      "teraboxvideodownloader.com", "savetera.com", "terasave.com",
      "tera.instavideosave.com", "teraboxplayer.com", "terabox-dl.com">>

\* [\w-]+\.<domain>
SubdomainOf(domain) == <<Run("id", 1), Lit(<<"." \o domain>>)>>

SUBDOMAIN_PATTERNS ==
    <<SubdomainOf("terabox.com"), SubdomainOf("teraboxapp.com"),
      SubdomainOf("1024tera.com"), SubdomainOf("dubox.com"),
      SubdomainOf("gcloud.live"), SubdomainOf("teraboxlinks.site")>>

\* https?://
Scheme == <<Lit(<<"http">>), Opt(<<Lit(<<"s">>)>>), Lit(<<"://">>)>>
\* (?:www\.)?
OptWww == <<Opt(<<Lit(<<"www.">>)>>)>>
\* (?:[\w-]+\.)?
OptSub == <<Opt(<<Run("id", 1), Lit(<<".">>)>>)>>

URL_PATTERNS ==
    << \* standard share links: /s/xxxxx
       Scheme \o OptWww \o OptSub \o
       <<Lit(<<"terabox", "teraboxapp", "1024tera", "dubox", "mirrobox",
               "nephobox", "4funbox", "freeterabox", "teraboxshare",
               "momerybox", "tibibox", "xhobox", "gcloud", "teraboxlink",
               "teraboxlinks", "terasharelink", "terafileshare",
               "1024terabox", "happybox", "boxtera", "teracloud",
               "cloudtera">>),
         Lit(<<".">>),
         Lit(<<"com", "app", "live", "tech", "fun", "site", "me", "net",
               "org", "link">>),
         Lit(<<"/s/">>), Cap("id", 1)>>,
       \* short links without /s/
       Scheme \o OptWww \o OptSub \o
       <<Lit(<<"terabox", "teraboxapp", "1024tera">>), Lit(<<".">>),
         Lit(<<"com", "app">>), Lit(<<"/">>), Cap("id", 8)>>,
       \* web/wap share links with surl parameter
       Scheme \o OptWww \o OptSub \o
       <<Lit(<<"terabox", "teraboxapp", "1024tera", "dubox">>),
         Lit(<<".">>), Lit(<<"com", "app">>), Lit(<<"/">>),
         Lit(<<"web", "wap">>), Lit(<<"/share/">>),
         Lit(<<"init", "link", "filelist">>), Lit(<<"?surl=">>),
         Cap("id", 1)>>,
       \* direct file links
       Scheme \o OptSub \o
       <<Lit(<<"terabox", "teraboxapp", "1024tera">>), Lit(<<".">>),
         Lit(<<"com", "app">>), Lit(<<"/file/">>), Cap("id", 1)>>,
       \* share with shareid parameter
       Scheme \o
       <<Run("nonspace", 1), Lit(<<"?", "&">>), Lit(<<"shareid=">>),
         Cap("id", 1)>>,
       \* share with surl parameter (anywhere in URL)
       Scheme \o
       <<Run("nonspace", 1), Lit(<<"?", "&">>), Lit(<<"surl=">>),
         Cap("id", 1)>>,
       \* teraboxlinks.site specific pattern
       Scheme \o OptWww \o
       <<Lit(<<"teraboxlinks.site/">>), Opt(<<Lit(<<"s/">>)>>),
         Cap("id", 1)>> >>

DOMAIN_MAPPING ==
    <<<<"mirrobox.com", "terabox.com">>,
      <<"nephobox.com", "terabox.com">>,
      <<"4funbox.com", "terabox.com">>,
      <<"freeterabox.com", "terabox.com">>,
      <<"momerybox.com", "terabox.com">>,
      <<"tibibox.com", "terabox.com">>,
      <<"xhobox.com", "terabox.com">>,
      <<"1024terabox.com", "1024tera.com">>,
      <<"teraboxlinks.site", "terabox.com">>,
      <<"teraboxlink.com", "terabox.com">>,
      <<"terasharelink.com", "terabox.com">>,
      <<"teraboxshare.com", "terabox.com">>,
      <<"terafileshare.com", "terabox.com">>>>

Range(seq) == {seq[i] : i \in 1..Len(seq)}

get_all_domains ==
    Range(PRIMARY_DOMAINS) \cup Range(OFFICIAL_MIRRORS) \cup Range(LINK_SITES)
    \cup Range(MIRROR_DOMAINS) \cup Range(ALTERNATIVE_DOMAINS)
    \cup Range(API_DOMAINS) \cup Range(THIRD_PARTY_EXTRACTORS)

terabox_indicators == <<"/s/", "surl=", "shareid=", "terabox", "tera", "dubox">>

\* r'https?://[^\s]+' (case-sensitive)
HttpUrlPattern == Scheme \o <<Run("nonspace", 1)>>

IsTeraboxLower(u, url_lower) ==
    \/ \E domain \in get_all_domains : Contains(url_lower, Lower(domain))
    \/ \E k \in 1..Len(SUBDOMAIN_PATTERNS) :
           Search(SUBDOMAIN_PATTERNS[k], url_lower)
    \/ /\ \E k \in 1..Len(terabox_indicators) :
              Contains(url_lower, terabox_indicators[k])
       /\ Search(HttpUrlPattern, u)

\* variant: the text is compared as it is written
is_terabox_url_cased(u) == IF u = "" THEN FALSE ELSE IsTeraboxLower(u, u)

is_terabox_url(u) == IF u = "" THEN FALSE ELSE IsTeraboxLower(u, Lower(u))

(***************************************************************************)
(* urllib.parse as used by extract_share_id.  Inputs carry no fragment,   *)
(* no path parameters and no percent escapes.                              *)
(***************************************************************************)
SchemeChars == CharsOf(Lowers) \cup CharsOf(Uppers) \cup CharsOf(Digits) \cup {"+", "-", "."}

\* index of the ':' ending the scheme, 0 when the input has no scheme
SchemeEndAt(u, i) ==
    IF /\ i > 1
       /\ At(u, 1) \in CharsOf(Lowers) \cup CharsOf(Uppers)
       /\ \A j \in 1..(i - 1) : At(u, j) \in SchemeChars
    THEN i ELSE 0

SchemeEnd(u) == SchemeEndAt(u, Find(u, ":", 1))

\* the smaller of two positions, 0 standing for "not found"
FirstOf(a, b) ==
    IF a = 0 THEN b ELSE IF b = 0 THEN a ELSE IF a < b THEN a ELSE b

\* s[k:] for a position found, "" for 0
FromFound(s, k) == IF k = 0 THEN "" ELSE From(s, k)

\* the netloc, when there is one, ends at the first '/' or '?'
SkipNetloc(rest) ==
    IF StartsAt(rest, 1, "//")
    THEN FromFound(rest, FirstOf(Find(rest, "/", 3), Find(rest, "?", 3)))
    ELSE rest

\* the text after scheme and netloc: path, then '?' and the query
AfterNetloc(u) == SkipNetloc(From(u, SchemeEnd(u) + 1))

PathBefore(rest, q) == IF q = 0 THEN rest ELSE SubSeq(rest, 1, q - 1)

QueryAfter(rest, q) == IF q = 0 THEN "" ELSE From(rest, q + 1)

PathOf(rest) == PathBefore(rest, Find(rest, "?", 1))

QueryOf(rest) == QueryAfter(rest, Find(rest, "?", 1))

\* urlparse(u).path
UrlPath(u) == PathOf(AfterNetloc(u))

\* urlparse(u).query
UrlQuery(u) == QueryOf(AfterNetloc(u))

\* parse_qs(query).get(name, [])[:1]: the first non-blank value of name
RECURSIVE FirstValue(_, _, _)
FirstValue(pairs, k, name) ==
    IF k > Len(pairs) THEN [ok |-> FALSE, v |-> ""]
    ELSE LET e == Find(pairs[k], "=", 1)
         IN  IF /\ e > 0
                /\ SubSeq(pairs[k], 1, e - 1) = name
                /\ From(pairs[k], e + 1) # ""
             THEN [ok |-> TRUE, v |-> From(pairs[k], e + 1)]
             ELSE FirstValue(pairs, k + 1, name)

QueryParam(u, name) == FirstValue(Split(UrlQuery(u), "&"), 1, name)

param_names == <<"surl", "shareid", "share_id", "id", "fid", "s">>

\* an optional string: Python's None is [ok |-> FALSE]
None == [ok |-> FALSE, v |-> ""]
Some(v) == [ok |-> TRUE, v |-> v]
\* Python truthiness of an optional string
Truthy(o) == o.ok /\ o.v # ""

\* the regex loop of extract_share_id: the group of the first pattern, from
\* k on, that matches with a group of at least 4 characters
\* the first source of an id if it gave one, otherwise the next source
IfNone(first, next) == IF first.ok THEN first ELSE next

\* if share_id and len(share_id) >= 4
LongEnough(m) == IF m.ok /\ m.v # "" /\ Len(m.v) >= 4 THEN Some(m.v) ELSE None

RECURSIVE FromPatterns(_, _)
FromPatterns(u, k) ==
    IF k > Len(URL_PATTERNS) THEN None
    ELSE IfNone(LongEnough(SearchGroupI(URL_PATTERNS[k], u)),
                FromPatterns(u, k + 1))

RECURSIVE FromParams(_, _)
FromParams(u, k) ==
    IF k > Len(param_names) THEN None
    ELSE IfNone(QueryParam(u, param_names[k]), FromParams(u, k + 1))

\* re.match(r'^[a-zA-Z0-9_-]+$', part)
IsIdent(part) == part # "" /\ RunLen(part, 1, "id") = Len(part)

\* for part in reversed(path_parts): the first of length >= 6 that is an id
RECURSIVE LastIdent(_, _)
LastIdent(parts, k) ==
    IF k < 1 THEN None
    ELSE IF Len(parts[k]) >= 6 /\ IsIdent(parts[k]) THEN Some(parts[k])
    ELSE LastIdent(parts, k - 1)

FromParts(path_parts) ==
    IF \E i \in 1..Len(path_parts) : path_parts[i] = "s"
    THEN LET s_index == CHOOSE i \in 1..Len(path_parts) :
                            /\ path_parts[i] = "s"
                            /\ \A j \in 1..(i - 1) : path_parts[j] # "s"
         IN  IF s_index + 1 <= Len(path_parts)
             THEN Some(path_parts[s_index + 1])
             ELSE LastIdent(path_parts, Len(path_parts))
    ELSE LastIdent(path_parts, Len(path_parts))

FromPath(u) == FromParts(Split(Strip(UrlPath(u), "/"), "/"))

\* variant: the patterns alone, without the fallback to query and path
extract_share_id_patterns(u) ==
    IF u = "" THEN None ELSE FromPatterns(u, 1)

extract_share_id(u) ==
    IF u = "" THEN None
    ELSE IfNone(FromPatterns(u, 1), IfNone(FromParams(u, 1), FromPath(u)))

RECURSIVE MappedDomain(_, _)
MappedDomain(url_lower, k) ==
    IF k > Len(DOMAIN_MAPPING) THEN None
    ELSE IF Contains(url_lower, DOMAIN_MAPPING[k][1])
    THEN Some(DOMAIN_MAPPING[k][2])
    ELSE MappedDomain(url_lower, k + 1)

RECURSIVE PrimaryDomain(_, _)
PrimaryDomain(url_lower, k) ==
    IF k > Len(PRIMARY_DOMAINS) THEN None
    ELSE IF Contains(url_lower, PRIMARY_DOMAINS[k]) THEN Some(PRIMARY_DOMAINS[k])
    ELSE PrimaryDomain(url_lower, k + 1)

\* variant: the primary domains are consulted before the aliases
ApiDomainIn_primary(url_lower) ==
    IfNone(PrimaryDomain(url_lower, 1),
           IfNone(MappedDomain(url_lower, 1), Some("terabox.com"))).v

ApiDomainIn(url_lower) ==
    IfNone(MappedDomain(url_lower, 1),
           IfNone(PrimaryDomain(url_lower, 1), Some("terabox.com"))).v

get_api_domain(u) == ApiDomainIn(Lower(u))

Normalized(u, sid) ==
    IF Truthy(sid)
    THEN "https://www." \o get_api_domain(u) \o "/s/" \o sid.v
    ELSE u

normalize_url(u) == Normalized(u, extract_share_id(u))

(***************************************************************************)
(* Bounds and inputs.                                                      *)
(***************************************************************************)
\* extract calls made by one request
MaxCalls == 2
\* clock advances
MaxTicks == 1
\* capacity of the cache in the model (TTLCache(maxsize=1000) in utils.py)
MaxSize == 1

\* the requests (handle_message tasks) that call extract
Reqs == {1, 2}

\* the permits of the semaphore (config.MAX_CONCURRENT_EXTRACTIONS)
MaxPermits == 1

\* the messages the bot receives
MaxMsgs == 3

\* the users writing to the bot
Users == {101, 102}

\* datetime.now().timestamp() when the bot starts, in seconds
Epoch == 1000

\* the inputs handed to extract
Urls ==
    {"https://www.terabox.com/s/abcdef",
     "https://mirrobox.com/s/abcdef",
     "http://example.com/abcdef",
     "https://www.terabox.com/s/ab",
     "https://www.terabox.com/",
     "https://www.terabox.com/s/eeaa3cd5cc2bd738eff9ec84a81dc302",
     "hello"}

\* hashlib.md5(u.encode()).hexdigest() on the inputs
md5_hexdigest(u) ==
    CASE u = "https://www.terabox.com/s/abcdef" ->
             "b5b58e5647dbe380d00fb471fe3e46d7"
      [] u = "https://mirrobox.com/s/abcdef" ->
             "ef051a8eb0a0d9d61c05ecd1e75d128f"
      [] u = "http://example.com/abcdef" ->
             "da3d931bea1d82d46b28edfe0625d0cc"
      [] u = "https://www.terabox.com/s/ab" ->
             "87d0a00b60fd13864f1610118053b323"
      [] u = "https://www.terabox.com/" ->
             "eeaa3cd5cc2bd738eff9ec84a81dc302"
      [] u = "https://www.terabox.com/s/eeaa3cd5cc2bd738eff9ec84a81dc302" ->
             "96cb1fc59eea69ee7c629e3fa7a05d12"
      [] u = "hello" ->
             "5d41402abc4b2a76b9719d911017c592"

KeyFor(u, sid) == IF Truthy(sid) THEN sid.v ELSE md5_hexdigest(u)

get_cache_key(u) == KeyFor(u, extract_share_id(u))

\* the registry functions on the inputs, evaluated once
UrlInfo ==
    {[input |-> u, terabox |-> is_terabox_url(u), id |-> extract_share_id(u),
      key |-> get_cache_key(u)] : u \in Urls}

InfoOf(u) == CHOOSE i \in UrlInfo : i.input = u
IsTerabox(u) == InfoOf(u).terabox
ShareIdOf(u) == InfoOf(u).id
CacheKeyOf(u) == InfoOf(u).key
Keys == {i.key : i \in UrlInfo}

(***************************************************************************)
(* VideoInfo (terabox_extractor.py).                                       *)
(***************************************************************************)
\* obj is the identity of the Python object: <<request, call>> of the
\* extract call whose strategy built it
VideoInfo(direct_link, download_link, stream_link, m3u8_link, sid, obj) ==
    [direct_link |-> direct_link, download_link |-> download_link,
     stream_link |-> stream_link, m3u8_link |-> m3u8_link,
     share_id |-> sid, obj |-> obj]

\* no VideoInfo (None)
NoVideo == VideoInfo("", "", "", "", "", <<0, 0>>)

\* variant: m3u8_link does not count
is_valid_three(v) ==
    v.direct_link # "" \/ v.stream_link # "" \/ v.download_link # ""

is_valid(v) ==
    v.direct_link # "" \/ v.stream_link # "" \/ v.m3u8_link # ""
    \/ v.download_link # ""

\* variant: direct_link comes first
get_best_link_direct(v) ==
    IF v.direct_link # "" THEN v.direct_link
    ELSE IF v.stream_link # "" THEN v.stream_link
    ELSE IF v.m3u8_link # "" THEN v.m3u8_link
    ELSE v.download_link

get_best_link(v) ==
    IF v.stream_link # "" THEN v.stream_link
    ELSE IF v.direct_link # "" THEN v.direct_link
    ELSE IF v.m3u8_link # "" THEN v.m3u8_link
    ELSE v.download_link

(***************************************************************************)
(* The strategies.  A response is what the remote side yields to one      *)
(* attempt: fail stands for every way the body raises before it has a     *)
(* payload (transport error, bad status, errno, empty list, no data),     *)
(* otherwise the link fields of the payload, possibly empty.               *)
(***************************************************************************)
EXTRACTION_METHODS ==
    <<"method_api_v1", "method_api_v2", "method_web_scraping",
      "method_cloudscraper", "method_mobile_api", "method_direct_parse",
      "method_alternative_api", "method_browser_emulation">>

NMethods == Len(EXTRACTION_METHODS)

\* variant: one more attempt for every method
max_retries_more == <<4, 4, 4, 4, 4, 4, 4, 3>>

\* variant: browser emulation is tried as often as the other methods
max_retries_browser == <<3, 3, 3, 3, 3, 3, 3, 3>>

\* @retry_async(max_retries=...) of each method
max_retries == <<3, 3, 3, 3, 3, 3, 3, 2>>

\* config.USE_BROWSER_FALLBACK
USE_BROWSER_FALLBACK == TRUE

Response(fail, dlink, stream_url) ==
    [fail |-> fail, dlink |-> dlink, stream_url |-> stream_url]

Responses ==
    {Response(TRUE, "", ""),
     Response(FALSE, "", ""),
     Response(FALSE, "http://x/video.mp4", ""),
     Response(FALSE, "", "http://x/stream")}

\* a strategy body either raises or returns a VideoInfo
Raise == [raises |-> TRUE, value |-> NoVideo]
Return(v) == [raises |-> FALSE, value |-> v]

\* _get_download_link: the link goes to direct_link and download_link
get_download_link(resp, sid, obj) ==
    Return(VideoInfo(resp.dlink, resp.dlink, "", "", sid, obj))

\* _create_video_info_from_data
create_video_info_from_data(resp, sid, obj) ==
    VideoInfo(resp.dlink, resp.dlink, resp.stream_url, "", sid, obj)

method_api_v1(resp, sid, obj) ==
    IF resp.fail THEN Raise ELSE get_download_link(resp, sid, obj)

method_api_v2(resp, sid, obj) ==
    IF resp.fail THEN Raise ELSE get_download_link(resp, sid, obj)

\* script data found: built from the data, whatever it holds
method_web_scraping(resp, sid, obj) ==
    IF resp.fail THEN Raise
    ELSE Return(create_video_info_from_data(resp, sid, obj))

\* data found when a link key is present, even with an empty value
method_cloudscraper(resp, sid, obj) ==
    IF resp.fail THEN Raise
    ELSE Return(create_video_info_from_data(resp, sid, obj))

method_mobile_api(resp, sid, obj) ==
    IF resp.fail THEN Raise ELSE get_download_link(resp, sid, obj)

\* returns only when file_info has a non-empty dlink
method_direct_parse(resp, sid, obj) ==
    IF ~resp.fail /\ resp.dlink # ""
    THEN Return(VideoInfo(resp.dlink, "", "", "", sid, obj))
    ELSE Raise

\* returns only when the relay's answer has a non-empty link
method_alternative_api(resp, sid, obj) ==
    IF ~resp.fail /\ resp.dlink # ""
    THEN Return(VideoInfo(resp.dlink, "", "", "", sid, obj))
    ELSE Raise

\* parses the rendered page like the scraping strategies
method_browser_emulation(resp, sid, obj) ==
    IF ~USE_BROWSER_FALLBACK \/ resp.fail THEN Raise
    ELSE Return(create_video_info_from_data(resp, sid, obj))

\* getattr(self, method_name)(normalized_url, share_id), one attempt
Body(k, resp, sid, obj) ==
    CASE k = 1 -> method_api_v1(resp, sid, obj)
      [] k = 2 -> method_api_v2(resp, sid, obj)
      [] k = 3 -> method_web_scraping(resp, sid, obj)
      [] k = 4 -> method_cloudscraper(resp, sid, obj)
      [] k = 5 -> method_mobile_api(resp, sid, obj)
      [] k = 6 -> method_direct_parse(resp, sid, obj)
      [] k = 7 -> method_alternative_api(resp, sid, obj)
      [] k = 8 -> method_browser_emulation(resp, sid, obj)

(***************************************************************************)
(* link_cache = TTLCache(maxsize, ttl): the entries in insertion order.    *)
(***************************************************************************)
ttl == 3600

\* variant: an entry is still served at the instant it expires
cache_contains_late(c, key, t) ==
    \E i \in 1..Len(c) : c[i].key = key /\ t <= c[i].expires

\* key in link_cache
cache_contains(c, key, t) ==
    \E i \in 1..Len(c) : c[i].key = key /\ t < c[i].expires

\* link_cache[key], for a key the cache contains
cache_getitem(c, key) ==
    (CHOOSE e \in Range(c) : e.key = key).value

\* TTLCache.expire(time)
cache_expire(c, t) == SelectSeq(c, LAMBDA e : t < e.expires)

\* variant: nothing is evicted, the cache grows
cache_evict_none(c) == c

\* popitem() until there is room: the oldest entries go first
RECURSIVE cache_evict(_)
cache_evict(c) == IF Len(c) + 1 > MaxSize THEN cache_evict(Tail(c)) ELSE c

\* variant: the new entry is linked before the old one of the key is unlinked
cache_setitem_partial(c, key, value, t) ==
    LET live == cache_expire(c, t)
        room == IF \E i \in 1..Len(live) : live[i].key = key
                THEN live ELSE cache_evict(live)
    IN  Append(room, [key |-> key, value |-> value, expires |-> t + ttl])

\* variant: an existing entry is kept (setdefault)
cache_setitem_keep(c, key, value, t) ==
    LET live == cache_expire(c, t)
    IN  IF \E i \in 1..Len(live) : live[i].key = key
        THEN live
        ELSE Append(cache_evict(live),
                    [key |-> key, value |-> value, expires |-> t + ttl])

\* link_cache[key] = value
cache_setitem(c, key, value, t) ==
    LET live == cache_expire(c, t)
        room == IF \E i \in 1..Len(live) : live[i].key = key
                THEN live ELSE cache_evict(live)
        others == SelectSeq(room, LAMBDA e : e.key # key)
    IN  Append(others, [key |-> key, value |-> value, expires |-> t + ttl])

(***************************************************************************)
(* State.                                                                  *)
(***************************************************************************)
VARIABLES
    now,             \* the cache's timer, in seconds
    ticks,           \* clock advances so far
    link_cache,      \* utils.link_cache
    pc,              \* per request: "idle", "body", "sleep", "done"
    url,             \* the argument of the extract call
    calls,           \* extract calls started by the request slot
    share_id,        \* extract's share_id
    method,          \* index of method_name in EXTRACTION_METHODS
    attempt,         \* retry_async's attempt
    last_exception,  \* retry_async's last_exception
    last_error,      \* extract's last_error
    result,          \* extract's result
    outcome,         \* how the extract call ended
    invoked,         \* history: the methods invoked by the call
    all_raised,      \* history: every method finished so far has raised
    last_raiser,     \* history: the last method that raised into extract
    returned,        \* history: per key, the results returned by extract
                     \* since the key's entry was last absent
    stored,          \* history: per key, the result stored last
    tries,           \* history: invocations of the current method's body
    current_delay,   \* retry_async's current_delay, in milliseconds
    sleeping,        \* the argument of the pending asyncio.sleep, in ms
    evicted,         \* history: the keys whose live entry the last insert
                     \* dropped
    bpc,             \* per request: where handle_message stands
    text,            \* handle_message's text
    sem_value,       \* the free permits of TeraboxBot._semaphore
    waiters,         \* the requests queued at the semaphore, oldest first
    deadline,        \* per request: wait_for's timer: "off", "armed", "fired"
    report,          \* per request: what the user was told last
    user_last_request, \* bot.user_last_request
    clock,           \* datetime.now().timestamp() at its last reading
    accepted,        \* history: per user, the messages accepted (n), when
                     \* the last of them came (at), the messages refused
    msgs,            \* messages received so far
    logged,          \* history: per request, the success arguments of the
                     \* log_request calls made for its message, in order
    count,           \* history: per request, the invocations of method
                     \* bodies and the backoff sleeps of its extract call
    pw,              \* the browsers of method_browser_emulation (below)
    call             \* the last call of a function of the registry or of
                     \* VideoInfo made on its own: its argument (arg, of
                     \* kind "url" or "video"), the function (fn) and
                     \* what it returned (val)

corevars == <<now, ticks, link_cache, pc, url, calls, share_id, method,
              attempt, last_exception, last_error, result, outcome, invoked,
              all_raised, last_raiser, returned, stored, tries, current_delay,
              sleeping, evicted>>

botvars == <<bpc, text, sem_value, waiters, deadline, report,
             user_last_request, clock, accepted, msgs, logged>>

auxvars == <<count, pw>>

vars == <<corevars, botvars, call, auxvars>>

\* an exception raised by attempt a of method k; NoError is None
Error(k, a) == [by |-> k, at |-> a]
NoError == Error(0, 0)

\* by is the index of the method whose return value is returned, 0 if none
Outcome(kind, value, error, by) ==
    [kind |-> kind, value |-> value, error |-> error, by |-> by]

NoOutcome == Outcome("none", NoVideo, NoError, 0)
\* return link_cache[cache_key]
CacheHit(v) == Outcome("hit", v, NoError, 0)
\* return result
Returned(v, k) == Outcome("ok", v, NoError, k)
\* ValueError("Not a valid Terabox URL: ...")
InvalidUrl == Outcome("InvalidUrl", NoVideo, NoError, 0)
\* ValueError("Could not extract share ID from URL: ...")
NoShareId == Outcome("NoShareId", NoVideo, NoError, 0)
\* Exception("All extraction methods failed. Last error: ...")
AllFailed(e) == Outcome("AllFailed", NoVideo, e, 0)

\* no function has been called on its own
NoCall == [kind |-> "none", arg |-> "", fn |-> "none", val |-> ""]

\* no browser is open and no request is inside method_browser_emulation;
\* enabled is config.USE_BROWSER_FALLBACK.  launched counts the browsers
\* launched so far, open holds those not yet closed, with the request whose
\* invocation launched them; per request, at is where its invocation of
\* the method stands, own is the browser its local `browser` names (0 when
\* unbound or closed) and res is what the invocation is about to hand over
Browsers(flag) ==
    [enabled |-> flag, launched |-> 0, open |-> {},
     at |-> [r \in Reqs |-> "out"], own |-> [r \in Reqs |-> 0],
     res |-> [r \in Reqs |-> Response(TRUE, "", "")]]

\* the state once bot, extractor and cache are constructed
Constructed ==
    /\ now = 0
    /\ ticks = 0
    /\ link_cache = << >>
    /\ pc = [r \in Reqs |-> "idle"]
    /\ url = [r \in Reqs |-> ""]
    /\ calls = [r \in Reqs |-> 0]
    /\ share_id = [r \in Reqs |-> ""]
    /\ method = [r \in Reqs |-> 0]
    /\ attempt = [r \in Reqs |-> 0]
    /\ last_exception = [r \in Reqs |-> NoError]
    /\ last_error = [r \in Reqs |-> NoError]
    /\ result = [r \in Reqs |-> NoVideo]
    /\ outcome = [r \in Reqs |-> NoOutcome]
    /\ invoked = [r \in Reqs |-> {}]
    /\ all_raised = [r \in Reqs |-> TRUE]
    /\ last_raiser = [r \in Reqs |-> 0]
    /\ returned = [k \in Keys |-> {}]
    /\ stored = [k \in Keys |-> NoVideo]
    /\ tries = [r \in Reqs |-> 0]
    /\ current_delay = [r \in Reqs |-> 0]
    /\ sleeping = [r \in Reqs |-> 0]
    /\ evicted = {}
    /\ bpc = [r \in Reqs |-> "idle"]
    /\ text = [r \in Reqs |-> ""]
    /\ sem_value = MaxPermits
    /\ waiters = << >>
    /\ deadline = [r \in Reqs |-> "off"]
    /\ report = [r \in Reqs |-> "none"]
    /\ user_last_request = [id \in Users |-> 0]
    /\ clock = Epoch
    /\ accepted = [id \in Users |-> [n |-> 0, at |-> 0, refused |-> 0]]
    /\ msgs = 0
    /\ logged = [r \in Reqs |-> << >>]
    /\ count = [r \in Reqs |-> [bodies |-> 0, sleeps |-> 0]]

Init ==
    /\ Constructed
    /\ call = NoCall
    /\ pw = Browsers(USE_BROWSER_FALLBACK)

\* @retry_async(max_retries=..., delay=...): the delay, in milliseconds
delay == <<1000, 1000, 1000, 1000, 1000, 1000, 1000, 2000>>

\* variant: the delay does not grow
backoff_none == 1

\* backoff: float = 2.0
backoff == 2

\* random.uniform(0, 1), in milliseconds
Jitters == {0, 999}

\* the keys live in c at time t that c2 no longer holds
Dropped(c, c2, t) ==
    {k \in Keys : cache_contains(c, k, t) /\ ~cache_contains(c2, k, t)}

\* the keys whose entry is absent or expired at time t
Absent(c, t) == {k \in Keys : ~cache_contains(c, k, t)}

\* history: forget the results of the keys that are no longer cached
Forget(ret, c, t) == [k \in Keys |-> IF k \in Absent(c, t) THEN {} ELSE ret[k]]
ForgetStored(st, c, t) ==
    [k \in Keys |-> IF k \in Absent(c, t) THEN NoVideo ELSE st[k]]

(***************************************************************************)
(* extract, from the call to the first suspension: the cache check, the   *)
(* validation and the start of the first method.                           *)
(***************************************************************************)
\* what extract does before the loop: a cached result, an error, or "run"
Checked(c, i, t) ==
    IF cache_contains(c, i.key, t) THEN CacheHit(cache_getitem(c, i.key))
    ELSE IF ~i.terabox THEN InvalidUrl
    ELSE IF ~Truthy(i.id) THEN NoShareId
    ELSE NoOutcome

Prologue(c, u, t) == Checked(c, InfoOf(u), t)

\* extract goes on as the prologue o says: into the first method, or out
Enter(r, u, o) ==
    /\ outcome' = [outcome EXCEPT ![r] = o]
    /\ pc' = [pc EXCEPT ![r] = IF o = NoOutcome THEN "body" ELSE "done"]
    /\ method' = [method EXCEPT ![r] = IF o = NoOutcome THEN 1 ELSE 0]
    /\ invoked' = [invoked EXCEPT ![r] = IF o = NoOutcome THEN {1} ELSE {}]
    /\ share_id' = [share_id EXCEPT ![r] =
                       IF o = NoOutcome THEN ShareIdOf(u).v ELSE ""]
    /\ returned' = IF o.kind = "hit"
                   THEN [returned EXCEPT ![CacheKeyOf(u)] = @ \cup {o.value}]
                   ELSE returned
    /\ tries' = [tries EXCEPT ![r] = IF o = NoOutcome THEN 1 ELSE 0]
    /\ current_delay' = [current_delay EXCEPT ![r] =
                             IF o = NoOutcome THEN delay[1] ELSE 0]

\* variant: single flight, a call waits while another request is extracting
\* the same share
Start_single_flight(r, u) ==
    /\ pc[r] \in {"idle", "done"}
    /\ calls[r] < MaxCalls
    /\ \A q \in Reqs \ {r} :
          ~(pc[q] \in {"body", "sleep"} /\ CacheKeyOf(url[q]) = CacheKeyOf(u))
    /\ url' = [url EXCEPT ![r] = u]
    /\ calls' = [calls EXCEPT ![r] = @ + 1]
    /\ Enter(r, u, Prologue(link_cache, u, now))
    /\ attempt' = [attempt EXCEPT ![r] = 0]
    /\ last_exception' = [last_exception EXCEPT ![r] = NoError]
    /\ last_error' = [last_error EXCEPT ![r] = NoError]
    /\ result' = [result EXCEPT ![r] = NoVideo]
    /\ all_raised' = [all_raised EXCEPT ![r] = TRUE]
    /\ last_raiser' = [last_raiser EXCEPT ![r] = 0]
    /\ UNCHANGED <<now, ticks, link_cache, stored, sleeping, evicted>>

Start(r, u) ==
    /\ pc[r] \in {"idle", "done"}
    /\ calls[r] < MaxCalls
    /\ url' = [url EXCEPT ![r] = u]
    /\ calls' = [calls EXCEPT ![r] = @ + 1]
    /\ Enter(r, u, Prologue(link_cache, u, now))
    /\ attempt' = [attempt EXCEPT ![r] = 0]
    /\ last_exception' = [last_exception EXCEPT ![r] = NoError]
    /\ last_error' = [last_error EXCEPT ![r] = NoError]
    /\ result' = [result EXCEPT ![r] = NoVideo]
    /\ all_raised' = [all_raised EXCEPT ![r] = TRUE]
    /\ last_raiser' = [last_raiser EXCEPT ![r] = 0]
    /\ UNCHANGED <<now, ticks, link_cache, stored, sleeping, evicted>>

(***************************************************************************)
(* One attempt of the current method ends.  The wrapper either sleeps     *)
(* before the next attempt or hands the outcome to extract, which returns,*)
(* starts the next method or raises the aggregate error.                   *)
(***************************************************************************)
\* extract is left: the loop variables and the wrapper's frame are gone
Leave(r) ==
    /\ method' = [method EXCEPT ![r] = 0]
    /\ attempt' = [attempt EXCEPT ![r] = 0]
    /\ last_exception' = [last_exception EXCEPT ![r] = NoError]
    /\ tries' = [tries EXCEPT ![r] = 0]
    /\ current_delay' = [current_delay EXCEPT ![r] = 0]

\* variant: the loop skips a method after each failure
NextMethod_skip(r, err) ==
    IF method[r] + 1 < NMethods
    THEN /\ pc' = [pc EXCEPT ![r] = "body"]
         /\ method' = [method EXCEPT ![r] = @ + 2]
         /\ invoked' = [invoked EXCEPT ![r] = @ \cup {method[r] + 2}]
         /\ attempt' = [attempt EXCEPT ![r] = 0]
         /\ last_exception' = [last_exception EXCEPT ![r] = NoError]
         /\ tries' = [tries EXCEPT ![r] = 1]
         /\ current_delay' = [current_delay EXCEPT ![r] = delay[method[r] + 2]]
         /\ UNCHANGED outcome
    ELSE /\ pc' = [pc EXCEPT ![r] = "done"]
         /\ outcome' = [outcome EXCEPT ![r] = AllFailed(err)]
         /\ Leave(r)
         /\ UNCHANGED invoked

\* extract's loop moves past the current method: the next method starts, or
\* the aggregate error names err
NextMethod(r, err) ==
    IF method[r] < NMethods
    THEN /\ pc' = [pc EXCEPT ![r] = "body"]
         /\ method' = [method EXCEPT ![r] = @ + 1]
         /\ invoked' = [invoked EXCEPT ![r] = @ \cup {method[r] + 1}]
         /\ attempt' = [attempt EXCEPT ![r] = 0]
         /\ last_exception' = [last_exception EXCEPT ![r] = NoError]
         /\ tries' = [tries EXCEPT ![r] = 1]
         /\ current_delay' = [current_delay EXCEPT ![r] = delay[method[r] + 1]]
         /\ UNCHANGED outcome
    ELSE /\ pc' = [pc EXCEPT ![r] = "done"]
         /\ outcome' = [outcome EXCEPT ![r] = AllFailed(err)]
         /\ Leave(r)
         /\ UNCHANGED invoked

\* variant: no except clause, the method's exception leaves extract
Caught_propagate(r, e) ==
    /\ pc' = [pc EXCEPT ![r] = "done"]
    /\ outcome' = [outcome EXCEPT ![r] = Outcome("StrategyError", NoVideo, e, 0)]
    /\ Leave(r)
    /\ last_error' = [last_error EXCEPT ![r] = NoError]
    /\ last_raiser' = [last_raiser EXCEPT ![r] = method[r]]
    /\ UNCHANGED <<result, link_cache, returned, stored, all_raised, invoked,
                   sleeping, evicted>>

\* variant: last_error keeps the first exception
Caught_first(r, e) ==
    LET first == IF last_error[r] = NoError THEN e ELSE last_error[r]
    IN  /\ last_error' = [last_error EXCEPT ![r] =
                             IF method[r] < NMethods THEN first ELSE NoError]
        /\ last_raiser' = [last_raiser EXCEPT ![r] = method[r]]
        /\ NextMethod(r, first)
        /\ UNCHANGED <<result, link_cache, returned, stored, all_raised,
                       sleeping, evicted>>

\* except Exception as e: last_error = e; continue
Caught(r, e) ==
    /\ last_error' = [last_error EXCEPT ![r] =
                         IF method[r] < NMethods THEN e ELSE NoError]
    /\ last_raiser' = [last_raiser EXCEPT ![r] = method[r]]
    /\ NextMethod(r, e)
    /\ UNCHANGED <<result, link_cache, returned, stored, all_raised,
                   sleeping, evicted>>

\* variant: a valid result is cached but the loop goes on
Got_continue(r, v) ==
    /\ result' = [result EXCEPT ![r] = v]
    /\ NextMethod(r, last_error[r])
    /\ last_error' = [last_error EXCEPT ![r] =
                         IF method[r] < NMethods THEN @ ELSE NoError]
    /\ all_raised' = [all_raised EXCEPT ![r] = FALSE]
    /\ IF is_valid(v)
       THEN LET cache_key == CacheKeyOf(url[r])
                c == cache_setitem(link_cache, cache_key, v, now)
            IN  /\ link_cache' = c
                /\ returned' = Forget(returned, c, now)
                /\ stored' = [ForgetStored(stored, c, now) EXCEPT
                                  ![cache_key] = v]
                /\ evicted' = Dropped(link_cache, c, now)
       ELSE UNCHANGED <<link_cache, returned, stored, evicted>>
    /\ UNCHANGED <<last_raiser, sleeping>>

\* variant: whatever the method returns is cached and returned
Got_unchecked(r, v) ==
    LET cache_key == CacheKeyOf(url[r])
        c == cache_setitem(link_cache, cache_key, v, now)
    IN  /\ result' = [result EXCEPT ![r] = v]
        /\ link_cache' = c
        /\ returned' = [Forget(returned, c, now) EXCEPT
                            ![cache_key] = @ \cup {v}]
        /\ stored' = [ForgetStored(stored, c, now) EXCEPT ![cache_key] = v]
        /\ evicted' = Dropped(link_cache, c, now)
        /\ pc' = [pc EXCEPT ![r] = "done"]
        /\ outcome' = [outcome EXCEPT ![r] = Returned(v, method[r])]
        /\ Leave(r)
        /\ last_error' = [last_error EXCEPT ![r] = NoError]
        /\ UNCHANGED <<invoked, all_raised, last_raiser, sleeping>>

\* variant: the wrapper treats an invalid result as a failed attempt
Got_retry(r, v) ==
    /\ result' = [result EXCEPT ![r] = v]
    /\ IF is_valid(v)
       THEN LET cache_key == CacheKeyOf(url[r])
                c == cache_setitem(link_cache, cache_key, v, now)
            IN  /\ link_cache' = c
                /\ returned' = [Forget(returned, c, now) EXCEPT
                                    ![cache_key] = @ \cup {v}]
                /\ stored' = [ForgetStored(stored, c, now) EXCEPT
                                  ![cache_key] = v]
                /\ evicted' = Dropped(link_cache, c, now)
                /\ pc' = [pc EXCEPT ![r] = "done"]
                /\ outcome' = [outcome EXCEPT ![r] = Returned(v, method[r])]
                /\ Leave(r)
                /\ last_error' = [last_error EXCEPT ![r] = NoError]
                /\ UNCHANGED <<invoked, all_raised, last_raiser, sleeping>>
       ELSE IF attempt[r] < max_retries[method[r]] - 1
       THEN /\ pc' = [pc EXCEPT ![r] = "sleep"]
            /\ sleeping' = [sleeping EXCEPT ![r] = current_delay[r]]
            /\ all_raised' = [all_raised EXCEPT ![r] = FALSE]
            /\ UNCHANGED <<method, invoked, attempt, last_exception, tries,
                           current_delay, outcome, last_error, link_cache,
                           returned, stored, last_raiser, evicted>>
       ELSE /\ NextMethod(r, last_error[r])
            /\ last_error' = [last_error EXCEPT ![r] =
                                 IF method[r] < NMethods THEN @ ELSE NoError]
            /\ all_raised' = [all_raised EXCEPT ![r] = FALSE]
            /\ UNCHANGED <<link_cache, returned, stored, last_raiser,
                           sleeping, evicted>>

\* result = await method(...): cache and return it when valid
Got(r, v) ==
    /\ result' = [result EXCEPT ![r] = v]
    /\ IF is_valid(v)
       THEN LET cache_key == CacheKeyOf(url[r])
                c == cache_setitem(link_cache, cache_key, v, now)
            IN  /\ link_cache' = c
                /\ returned' = [Forget(returned, c, now) EXCEPT
                                    ![cache_key] = @ \cup {v}]
                /\ stored' = [ForgetStored(stored, c, now) EXCEPT
                                  ![cache_key] = v]
                /\ evicted' = Dropped(link_cache, c, now)
                /\ pc' = [pc EXCEPT ![r] = "done"]
                /\ outcome' = [outcome EXCEPT ![r] = Returned(v, method[r])]
                /\ Leave(r)
                /\ last_error' = [last_error EXCEPT ![r] = NoError]
                /\ UNCHANGED <<invoked, all_raised, last_raiser, sleeping>>
       ELSE /\ NextMethod(r, last_error[r])
            /\ last_error' = [last_error EXCEPT ![r] =
                                 IF method[r] < NMethods THEN @ ELSE NoError]
            /\ all_raised' = [all_raised EXCEPT ![r] = FALSE]
            /\ UNCHANGED <<link_cache, returned, stored, last_raiser,
                           sleeping, evicted>>

\* func returns or raises; jitter is random.uniform(0, 1), in milliseconds
EndAttempt(r, resp, jitter) ==
    /\ pc[r] = "body"
    /\ LET b == Body(method[r], resp, share_id[r], <<r, calls[r]>>)
           e == Error(method[r], attempt[r])
       IN  IF b.raises
           THEN IF attempt[r] < max_retries[method[r]] - 1
                THEN \* await asyncio.sleep(current_delay + random.uniform(0, 1))
                     /\ pc' = [pc EXCEPT ![r] = "sleep"]
                     /\ last_exception' = [last_exception EXCEPT ![r] = e]
                     /\ sleeping' = [sleeping EXCEPT ![r] =
                                         current_delay[r] + jitter]
                     /\ UNCHANGED <<method, attempt, last_error, result,
                                    outcome, invoked, all_raised,
                                    last_raiser, link_cache, returned,
                                    stored, tries, current_delay, evicted>>
                ELSE \* raise last_exception
                     Caught(r, e)
           ELSE Got(r, b.value)
    /\ UNCHANGED <<now, ticks, url, calls, share_id>>

\* the backoff sleep is over: the next attempt starts
Wake(r) ==
    /\ pc[r] = "sleep"
    /\ pc' = [pc EXCEPT ![r] = "body"]
    /\ attempt' = [attempt EXCEPT ![r] = @ + 1]
    /\ tries' = [tries EXCEPT ![r] = @ + 1]
    /\ current_delay' = [current_delay EXCEPT ![r] = @ * backoff]
    /\ sleeping' = [sleeping EXCEPT ![r] = 0]
    /\ UNCHANGED <<now, ticks, link_cache, url, calls, share_id, method,
                   last_exception, last_error, result, outcome, invoked,
                   all_raised, last_raiser, returned, stored, evicted>>

\* time passes
TickSteps == {ttl - 1, ttl}

Tick(d) ==
    /\ ticks < MaxTicks
    /\ ticks' = ticks + 1
    /\ now' = now + d
    /\ returned' = Forget(returned, link_cache, now + d)
    /\ stored' = ForgetStored(stored, link_cache, now + d)
    /\ UNCHANGED <<link_cache, pc, url, calls, share_id, method, attempt,
                   last_exception, last_error, result, outcome, invoked,
                   all_raised, last_raiser, tries, current_delay, sleeping,
                   evicted>>

\* random.uniform is called only where the wrapper sleeps (line 48): the
\* values it can give when request r's attempt ends with resp
JittersAt(r, resp) ==
    IF /\ pc[r] = "body"
       /\ Body(method[r], resp, share_id[r], <<r, calls[r]>>).raises
       /\ attempt[r] < max_retries[method[r]] - 1
    THEN Jitters
    ELSE {0}

\* one caller making one extract call after the other
Callers == {1}

Next ==
    /\ \/ \E r \in Callers, u \in Urls : Start(r, u)
       \/ \E r \in Callers, resp \in Responses :
             \E j \in JittersAt(r, resp) : EndAttempt(r, resp, j)
       \/ \E r \in Callers : Wake(r)
       \/ \E d \in TickSteps : Tick(d)
    /\ UNCHANGED <<botvars, call, auxvars>>

Spec == Init /\ [][Next]_vars

(***************************************************************************)
(* Two requests running extract concurrently (concurrent_updates), for    *)
(* one share that each presents through a domain of its own; every attempt *)
(* either fails or yields one of two links, and the requests make         *)
(* MaxCalls + 1 calls between them.                                        *)
(***************************************************************************)
ConcUrl == <<"https://www.terabox.com/s/abcdef", "https://mirrobox.com/s/abcdef">>

ConcResponses ==
    {Response(TRUE, "", ""),
     Response(FALSE, "http://x/video.mp4", ""),
     Response(FALSE, "http://y/video.mp4", "")}

\* extract calls started so far by the requests of S
RECURSIVE Started(_)
Started(S) ==
    IF S = {} THEN 0
    ELSE LET r == CHOOSE q \in S : TRUE
         IN  calls[r] + Started(S \ {r})

NextConc ==
    /\ \/ \E r \in Reqs : Started(Reqs) <= MaxCalls /\ Start(r, ConcUrl[r])
       \/ \E r \in Reqs, resp \in ConcResponses, j \in {0} :
             EndAttempt(r, resp, j)
       \/ \E r \in Reqs : Wake(r)
       \/ \E d \in TickSteps : Tick(d)
    /\ UNCHANGED <<botvars, call, auxvars>>

SpecConc == Init /\ [][NextConc]_vars

\* the two requests within one lifetime of a cache entry: the clock stands
NextFlight ==
    /\ \/ \E r \in Reqs : Started(Reqs) <= MaxCalls /\ Start(r, ConcUrl[r])
       \/ \E r \in Reqs, resp \in ConcResponses :
             EndAttempt(r, resp, 0)
       \/ \E r \in Reqs : Wake(r)
    /\ UNCHANGED <<botvars, call, auxvars>>

SpecFlight == Init /\ [][NextFlight]_vars

(***************************************************************************)
(* The bot: TeraboxBot.handle_message around extract (bot.py).  Each       *)
(* action is the code between two suspension points of one handler task;  *)
(* the handler tasks share one event loop (concurrent_updates).           *)
(***************************************************************************)
\* the messages users send
Texts ==
    {"https://www.terabox.com/s/abcdef", " https://mirrobox.com/s/abcdef ",
     "https://www.terabox.com/", "http://example.com/abcdef", "hello"}

\* url_match.group(0) for r'https?://[^\s]+', "" when nothing matches
UrlMatch(m, t) ==
    IF m = Fail THEN ""
    ELSE IF m[1] > 8 /\ SubSeq(t, m[1] - 8, m[1] - 1) = "https://"
         THEN SubSeq(t, m[1] - 8, m[2])
         ELSE SubSeq(t, m[1] - 7, m[2])

url_match(t) ==
    UrlMatch(SearchFrom(Scheme \o <<Cap("nonspace", 1)>>, t, 1), t)

\* lines 252-270: the text handed to extract, "" when the message is refused
LinkOf(t, found) ==
    IF is_terabox_url(t) THEN t
    ELSE IF found # "" /\ is_terabox_url(found) THEN found
    ELSE ""

\* text = message.text.strip() and the link looked for in it
Links == [t \in Texts |-> LinkOf(Strip(t, " "), url_match(Strip(t, " ")))]

\* variant: a shorter interval
RATE_LIMIT_SECONDS_short == 2

RATE_LIMIT_SECONDS == 3

\* variant: a refused request is recorded as well
check_rate_limit_touch(table, id, t) ==
    IF t - table[id] < RATE_LIMIT_SECONDS
    THEN [ok |-> FALSE, table |-> [table EXCEPT ![id] = t]]
    ELSE [ok |-> TRUE, table |-> [table EXCEPT ![id] = t]]

\* _check_rate_limit(user_id) at time t: the answer and the table afterwards
check_rate_limit(table, id, t) ==
    IF t - table[id] < RATE_LIMIT_SECONDS
    THEN [ok |-> FALSE, table |-> table]
    ELSE [ok |-> TRUE, table |-> [table EXCEPT ![id] = t]]

\* the first request of the queue w whose future is not done, 0 if none
RECURSIVE FirstWaiting(_, _)
FirstWaiting(w, st) ==
    IF w = << >> THEN 0
    ELSE IF st[Head(w)] = "waiting" THEN Head(w)
    ELSE FirstWaiting(Tail(w), st)

\* Semaphore._wake_up_next() with v free permits: the first waiter not yet
\* woken, q, gets one
Woken(v, q) ==
    IF q = 0 THEN [value |-> v, woken |-> 0] ELSE [value |-> v - 1, woken |-> q]

\* Semaphore.release(): self._value += 1; self._wake_up_next()
sem_release(v, w, st) == Woken(v + 1, FirstWaiting(w, st))

\* the requests inside `async with self._semaphore`
Inside == {r \in Reqs : bpc[r] \in {"inside", "extracting", "logging", "sending"}}

\* the requests that own a permit: those inside and those woken for one
Holders == Inside \cup {r \in Reqs : bpc[r] = "granted"}

\* a message arrives d seconds after the clock was last read: the rate limit
\* and the link checks, up to the first reply
Receive(r, id, t, d) ==
    /\ bpc[r] = "idle"
    /\ msgs < MaxMsgs
    /\ calls[r] < MaxCalls
    /\ msgs' = msgs + 1
    /\ logged' = [logged EXCEPT ![r] = << >>]
    /\ clock' = clock + d
    /\ deadline' = [deadline EXCEPT ![r] = "off"]
    /\ LET c == check_rate_limit(user_last_request, id, clock + d)
           link == IF c.ok THEN Links[t] ELSE ""
       IN  /\ user_last_request' = c.table
           /\ accepted' = [accepted EXCEPT ![id] =
                              IF c.ok
                              THEN [@ EXCEPT !.n = @ + 1, !.at = clock + d]
                              ELSE [@ EXCEPT !.refused = @ + 1]]
           /\ text' = [text EXCEPT ![r] = link]
           /\ bpc' = [bpc EXCEPT ![r] = IF link # "" THEN "gate" ELSE "idle"]
           /\ report' = [report EXCEPT ![r] =
                            IF ~c.ok THEN "wait"
                            ELSE IF link = "" THEN "nolink"
                            ELSE "processing"]
    /\ UNCHANGED <<sem_value, waiters, corevars, call, auxvars>>

\* async with self._semaphore: acquire() takes a permit, or queues when the
\* semaphore is locked()
Arrive(r) ==
    /\ bpc[r] = "gate"
    /\ IF sem_value > 0 /\ waiters = << >>
       THEN /\ sem_value' = sem_value - 1
            /\ bpc' = [bpc EXCEPT ![r] = "inside"]
            /\ UNCHANGED waiters
       ELSE /\ waiters' = Append(waiters, r)
            /\ bpc' = [bpc EXCEPT ![r] = "waiting"]
            /\ UNCHANGED sem_value
    /\ UNCHANGED <<text, deadline, report, user_last_request, clock,
                   accepted, msgs, logged, corevars, call, auxvars>>

\* variant: the permit is not given back
Released_lost(r, to, s) ==
    /\ UNCHANGED <<sem_value, waiters>>
    /\ bpc' = [bpc EXCEPT ![r] = to]

\* the request leaves the `async with` block for `to`: s is what release()
\* makes of the semaphore, the woken waiter owns a permit from now on
Released(r, to, s) ==
    /\ sem_value' = s.value
    /\ bpc' = [q \in Reqs |-> IF q = r THEN to
                              ELSE IF q = s.woken THEN "granted"
                              ELSE bpc[q]]
    /\ UNCHANGED waiters

\* acquire() goes on after `await fut`: the request leaves the queue and,
\* if a permit is free, wakes the next waiter
Resume(r) ==
    /\ bpc[r] = "granted"
    /\ LET w == SelectSeq(waiters, LAMBDA q : q # r)
           s == Woken(sem_value,
                      IF sem_value > 0 THEN FirstWaiting(w, bpc) ELSE 0)
       IN  /\ waiters' = w
           /\ sem_value' = s.value
           /\ bpc' = [q \in Reqs |-> IF q = r THEN "inside"
                                     ELSE IF q = s.woken THEN "granted"
                                     ELSE bpc[q]]
    /\ UNCHANGED <<text, deadline, report, user_last_request, clock,
                   accepted, msgs, logged, corevars, call, auxvars>>

\* what handle_message does with the way extract went on: it is still in
\* flight, it returned a valid result (line 300), or it raised
Routed(r, p, o) ==
    IF p # "done"
    THEN /\ bpc' = [bpc EXCEPT ![r] = "extracting"]
         /\ UNCHANGED <<sem_value, waiters>>
    ELSE IF o.kind \in {"ok", "hit"} /\ is_valid(o.value)
    THEN /\ bpc' = [bpc EXCEPT ![r] = "logging"]
         /\ UNCHANGED <<sem_value, waiters>>
    ELSE Released(r, "error", sem_release(sem_value, waiters, bpc))

\* asyncio.wait_for(self.extractor.extract(text), EXTRACTION_TIMEOUT)
BeginExtract(r) ==
    /\ bpc[r] = "inside"
    /\ Start(r, text[r])
    /\ Routed(r, pc'[r], outcome'[r])
    /\ deadline' = [deadline EXCEPT ![r] =
                       IF pc'[r] = "done" THEN "off" ELSE "armed"]
    /\ text' = [text EXCEPT ![r] = ""]
    /\ UNCHANGED <<report, user_last_request, clock, accepted, msgs,
                   logged, call, auxvars>>

\* an attempt of the current method ends while the handler awaits wait_for
BotEnd(r, resp, jitter) ==
    /\ bpc[r] = "extracting"
    /\ EndAttempt(r, resp, jitter)
    /\ Routed(r, pc'[r], outcome'[r])
    /\ deadline' = [deadline EXCEPT ![r] =
                       IF pc'[r] = "done" /\ @ = "armed" THEN "off" ELSE @]
    /\ UNCHANGED <<text, report, user_last_request, clock, accepted, msgs,
                   logged, call, auxvars>>

BotWake(r) ==
    /\ bpc[r] = "extracting"
    /\ Wake(r)
    /\ UNCHANGED <<botvars, call, auxvars>>

(***************************************************************************)
(* The cache check with the timer read twice: `cache_key in link_cache`    *)
(* reads it at t, link_cache[cache_key] reads it again at t2 >= t and      *)
(* raises KeyError (TTLCache.__missing__) for an entry expired by then.    *)
(* Nothing is awaited between the two, so no other request runs there.     *)
(***************************************************************************)
CheckedAt(c, i, t, t2) ==
    IF cache_contains(c, i.key, t) /\ ~cache_contains(c, i.key, t2)
    THEN Outcome("KeyError", NoVideo, NoError, 0)
    ELSE Checked(c, i, t)

\* extract(u) is called; the read follows the membership test by lapse, the
\* timer's advance between the two in seconds
StartLate(r, u, lapse) ==
    /\ pc[r] \in {"idle", "done"}
    /\ calls[r] < MaxCalls
    /\ url' = [url EXCEPT ![r] = u]
    /\ calls' = [calls EXCEPT ![r] = @ + 1]
    /\ Enter(r, u, CheckedAt(link_cache, InfoOf(u), now, now + lapse))
    /\ now' = now + lapse
    /\ attempt' = [attempt EXCEPT ![r] = 0]
    /\ last_exception' = [last_exception EXCEPT ![r] = NoError]
    /\ last_error' = [last_error EXCEPT ![r] = NoError]
    /\ result' = [result EXCEPT ![r] = NoVideo]
    /\ all_raised' = [all_raised EXCEPT ![r] = TRUE]
    /\ last_raiser' = [last_raiser EXCEPT ![r] = 0]
    /\ UNCHANGED <<ticks, link_cache, stored, sleeping, evicted>>

NextLookup ==
    /\ \/ \E r \in Callers, u \in Urls, lapse \in {0, 1} :
             StartLate(r, u, lapse)
       \/ \E r \in Callers, resp \in Responses, j \in {0} :
             EndAttempt(r, resp, j)
       \/ \E r \in Callers : Wake(r)
       \/ \E d \in TickSteps : Tick(d)
    /\ UNCHANGED <<botvars, call, auxvars>>

SpecLookup == Init /\ [][NextLookup]_vars

\* variant: a cancelled extraction invalidates the cache
Cancelled_clear(r) ==
    /\ pc' = [pc EXCEPT ![r] = "done"]
    /\ outcome' = [outcome EXCEPT ![r] =
                      Outcome("Cancelled", NoVideo, NoError, 0)]
    /\ Leave(r)
    /\ last_error' = [last_error EXCEPT ![r] = NoError]
    /\ sleeping' = [sleeping EXCEPT ![r] = 0]
    /\ link_cache' = << >>
    /\ UNCHANGED <<now, ticks, url, calls, share_id, result, invoked,
                   all_raised, last_raiser, returned, stored, evicted>>

\* CancelledError leaves the method, the wrapper and extract
Cancelled(r) ==
    /\ pc' = [pc EXCEPT ![r] = "done"]
    /\ outcome' = [outcome EXCEPT ![r] =
                      Outcome("Cancelled", NoVideo, NoError, 0)]
    /\ Leave(r)
    /\ last_error' = [last_error EXCEPT ![r] = NoError]
    /\ sleeping' = [sleeping EXCEPT ![r] = 0]
    /\ UNCHANGED <<now, ticks, link_cache, url, calls, share_id, result,
                   invoked, all_raised, last_raiser, returned, stored,
                   evicted>>

\* EXTRACTION_TIMEOUT is over while extract is suspended at point: wait_for
\* cancels extract.  Browser emulation (method 8) awaits the page or, inside
\* its own try/except, the click on the play control; the bare `except:`
\* around the click swallows the CancelledError and the method goes on.
\* Anywhere else the cancellation leaves extract and wait_for raises
\* TimeoutError
Expire(r, point) ==
    /\ bpc[r] = "extracting"
    /\ deadline[r] = "armed"
    /\ pc[r] \in {"body", "sleep"}
    /\ point \in (IF pc[r] = "body" /\ method[r] = NMethods
                  THEN {"page", "click"} ELSE {"io"})
    /\ deadline' = [deadline EXCEPT ![r] = "fired"]
    /\ IF point = "click"
       THEN UNCHANGED <<corevars, bpc, sem_value, waiters>>
       ELSE /\ Cancelled(r)
            /\ Released(r, "timeout", sem_release(sem_value, waiters, bpc))
    /\ UNCHANGED <<text, report, user_last_request, clock, accepted, msgs,
                   logged, call, auxvars>>

(***************************************************************************)
(* extract on its own under a deadline: wait_for cancels the call while it *)
(* is suspended in a method or in the wrapper's sleep.  A cancellation the *)
(* click's bare except swallows changes nothing and the call goes on.      *)
(***************************************************************************)
Cancel(r) ==
    /\ pc[r] \in {"body", "sleep"}
    /\ Cancelled(r)

NextCancel ==
    /\ \/ \E r \in Callers, u \in Urls : Start(r, u)
       \/ \E r \in Callers, resp \in Responses, j \in {0} :
             EndAttempt(r, resp, j)
       \/ \E r \in Callers : Wake(r)
       \/ \E d \in TickSteps : Tick(d)
       \/ \E r \in Callers : Cancel(r)
    /\ UNCHANGED <<botvars, call, auxvars>>

SpecCancel == Init /\ [][NextCancel]_vars

\* await db.log_request(success=True, ...) returns or raises (lines 302-308)
LogSuccess(r, ok) ==
    /\ bpc[r] = "logging"
    /\ IF ok
       THEN /\ bpc' = [bpc EXCEPT ![r] = "sending"]
            /\ UNCHANGED <<sem_value, waiters>>
       ELSE Released(r, "error", sem_release(sem_value, waiters, bpc))
    /\ logged' = [logged EXCEPT ![r] = Append(@, TRUE)]
    /\ UNCHANGED <<text, deadline, report, user_last_request, clock,
                   accepted, msgs, corevars, call, auxvars>>

\* await self._send_result(processing_msg, video_info) returns, or raises
\* what message.edit_text raises (lines 396-401): the exception leaves the
\* try block for the `except Exception` clause
SendResult(r, ok) ==
    /\ bpc[r] = "sending"
    /\ IF ok
       THEN /\ Released(r, "idle", sem_release(sem_value, waiters, bpc))
            /\ report' = [report EXCEPT ![r] = "sent"]
       ELSE /\ Released(r, "error", sem_release(sem_value, waiters, bpc))
            /\ UNCHANGED report
    /\ UNCHANGED <<text, deadline, user_last_request, clock, accepted,
                   msgs, logged, corevars, call, auxvars>>

\* the except clauses (lines 315-340): log_request, then the message; when
\* log_request raises the handler is left and the user is told nothing
Handler(r, ok) ==
    /\ bpc[r] \in {"timeout", "error"}
    /\ bpc' = [bpc EXCEPT ![r] = "idle"]
    /\ report' = [report EXCEPT ![r] =
                     IF ~ok THEN @
                     ELSE IF bpc[r] = "timeout" THEN "timeout" ELSE "failed"]
    /\ logged' = [logged EXCEPT ![r] = Append(@, FALSE)]
    /\ UNCHANGED <<text, sem_value, waiters, deadline, user_last_request,
                   clock, accepted, msgs, corevars, call, auxvars>>

(***************************************************************************)
(* The bot serving one user whose messages are far enough apart.  The     *)
(* attempts of request 1 fail or yield a link; those of request 2 yield a  *)
(* link at once, so that request fails only on a link without share id.   *)
(***************************************************************************)
BotResponses ==
    <<{Response(TRUE, "", ""), Response(FALSE, "http://x/video.mp4", "")},
      {Response(FALSE, "http://y/video.mp4", "")}>>

BotTexts ==
    <<{"https://www.terabox.com/s/abcdef", "hello"},
      {" https://mirrobox.com/s/abcdef ", "https://www.terabox.com/"}>>

NextBot ==
    \/ \E r \in Reqs : \E t \in BotTexts[r] :
          Receive(r, 101, t, RATE_LIMIT_SECONDS)
    \/ \E r \in Reqs : Arrive(r)
    \/ \E r \in Reqs : Resume(r)
    \/ \E r \in Reqs : BeginExtract(r)
    \/ \E r \in Reqs : \E resp \in BotResponses[r] : BotEnd(r, resp, 0)
    \/ \E r \in Reqs : BotWake(r)
    \/ \E r \in Reqs, point \in {"io", "page", "click"} : Expire(r, point)
    \/ \E r \in Reqs, ok \in BOOLEAN : LogSuccess(r, ok)
    \/ \E r \in Reqs, ok \in BOOLEAN : SendResult(r, ok)
    \/ \E r \in Reqs, ok \in BOOLEAN : Handler(r, ok)

SpecBot == Init /\ [][NextBot]_vars

(***************************************************************************)
(* The bot serving two users whose messages come 2 or 3 seconds            *)
(* after the one before; every attempt yields a link.                      *)
(***************************************************************************)
NextGate ==
    \/ \E r \in Reqs, id \in Users, d \in {2, 3}, t \in BotTexts[1] :
          Receive(r, id, t, d)
    \/ \E r \in Reqs : Arrive(r)
    \/ \E r \in Reqs : Resume(r)
    \/ \E r \in Reqs : BeginExtract(r)
    \/ \E r \in Reqs, resp \in BotResponses[2] : BotEnd(r, resp, 0)
    \/ \E r \in Reqs : Expire(r, "io")
    \/ \E r \in Reqs, ok \in BOOLEAN : LogSuccess(r, ok)
    \/ \E r \in Reqs, ok \in BOOLEAN : SendResult(r, ok)
    \/ \E r \in Reqs, ok \in BOOLEAN : Handler(r, ok)

SpecGate == Init /\ [][NextGate]_vars

\* the event loop runs every handler that can go on, and what a permit's
\* holder awaits (an attempt, the log, the reply) comes to an end
FairSpecBot ==
    /\ SpecBot
    /\ \A r \in Reqs :
          WF_vars(\/ Arrive(r)
                  \/ Resume(r)
                  \/ BeginExtract(r)
                  \/ \E resp \in BotResponses[r] : BotEnd(r, resp, 0)
                  \/ BotWake(r)
                  \/ \E ok \in BOOLEAN : LogSuccess(r, ok)
                  \/ \E ok \in BOOLEAN : SendResult(r, ok))

(***************************************************************************)
(* The functions of the registry and of VideoInfo called on their own:    *)
(* an argument is chosen, then functions are applied to it.  The argument  *)
(* is a VideoInfo (kind "video"), a text (kind "url") or a text holding a  *)
(* cataloged domain (kind "domain").                                       *)
(***************************************************************************)
(***************************************************************************)
(* One caller's extract calls with their work counted.  A step of the call *)
(* that leaves it in a method's body has invoked that body (the wrapper's *)
(* `await func`, utils.py line 40); one that leaves it asleep has started  *)
(* a backoff sleep (line 49).  fresh: the step starts the call.            *)
(***************************************************************************)
Observed(r, fresh) ==
    /\ count' = [count EXCEPT ![r] =
                    [bodies |-> (IF fresh THEN 0 ELSE @.bodies)
                                + (IF pc'[r] = "body" THEN 1 ELSE 0),
                     sleeps |-> (IF fresh THEN 0 ELSE @.sleeps)
                                + (IF pc'[r] = "sleep" THEN 1 ELSE 0)]]
    /\ UNCHANGED <<botvars, call, pw>>

\* the links of one share on two domains, and a text that is no link
CountUrls ==
    {"https://www.terabox.com/s/abcdef", "https://mirrobox.com/s/abcdef",
     "hello"}

CountStart(r) == (\E u \in CountUrls : Start(r, u)) /\ Observed(r, TRUE)

CountEnd(r) ==
    (\E resp \in Responses : EndAttempt(r, resp, 0)) /\ Observed(r, FALSE)

CountWake(r) == Wake(r) /\ Observed(r, FALSE)

NextCount ==
    \/ \E r \in Callers : CountStart(r)
    \/ \E r \in Callers : CountEnd(r)
    \/ \E r \in Callers : CountWake(r)

SpecCount == Init /\ [][NextCount]_vars

\* every invocation of a method's body comes to an end, and so does every
\* asyncio.sleep of the wrapper
FairSpecCount ==
    /\ SpecCount
    /\ \A r \in Callers : WF_vars(CountEnd(r)) /\ WF_vars(CountWake(r))

(***************************************************************************)
(* method_browser_emulation step by step (lines 455-517), for two requests *)
(* running extract concurrently under wait_for's deadline.  The method     *)
(* awaits, inside `async with async_playwright() as p`: the launch, the    *)
(* page (new_context, new_page, goto, sleep), the click and its sleep      *)
(* inside a try of their own, page.content(), browser.close(); then it     *)
(* returns or raises, which leaves the `async with` block.  Leaving the    *)
(* block stops Playwright and with it the browsers it launched.            *)
(***************************************************************************)
\* variant: the flag is not looked at
Disabled_never(flag) == FALSE

\* `if not config.USE_BROWSER_FALLBACK` (line 459)
Disabled(flag) == ~flag

\* variant: nothing is stopped when the block is left
Stopped_leak(open, r) == open

\* the browsers still open once request r's `async with` block is left
Stopped(open, r) == {b \in open : b.by # r}

\* request r is in an invocation of method_browser_emulation
InBrowser(r) == pc[r] = "body" /\ method[r] = NMethods

\* an invocation that raises
Failed == Response(TRUE, "", "")

\* what the page gave: a captured request or parsed data with a link,
\* parsed data without one, or nothing
BrowserResults ==
    {Response(FALSE, "http://x/video.mp4", ""), Response(FALSE, "", ""),
     Failed}

\* the invocation goes on to its next await
Moved(r, to) == pw' = [pw EXCEPT !.at[r] = to]

\* the invocation is about to leave the `async with` block with resp
Leaving(r, resp) == pw' = [pw EXCEPT !.at[r] = "exit", !.res[r] = resp]

\* the flag and the import (lines 459-465): the method raises at once, or
\* enters the `async with` block and awaits the launch
BrowserBegin(r, ok) ==
    /\ InBrowser(r)
    /\ pw.at[r] = "out"
    /\ IF Disabled(pw.enabled) \/ ~ok
       THEN EndAttempt(r, Failed, 0) /\ UNCHANGED pw
       ELSE Moved(r, "launch") /\ UNCHANGED corevars
    /\ UNCHANGED <<botvars, call, count>>

\* browser = await p.chromium.launch(...) (line 466)
BrowserLaunch(r, ok) ==
    /\ pw.at[r] = "launch"
    /\ IF ok
       THEN pw' = [pw EXCEPT !.launched = @ + 1,
                             !.open = @ \cup {[id |-> pw.launched + 1,
                                               by |-> r]},
                             !.own[r] = pw.launched + 1,
                             !.at[r] = "page"]
       ELSE Leaving(r, Failed)
    /\ UNCHANGED <<corevars, botvars, call, count>>

\* new_context, new_page, page.goto, asyncio.sleep(3) (lines 467-484)
BrowserPage(r, ok) ==
    /\ pw.at[r] = "page"
    /\ IF ok THEN Moved(r, "click") ELSE Leaving(r, Failed)
    /\ UNCHANGED <<corevars, botvars, call, count>>

\* the click and its sleep: whatever they raise is dropped (lines 487-491)
BrowserClick(r) ==
    /\ pw.at[r] = "click"
    /\ Moved(r, "content")
    /\ UNCHANGED <<corevars, botvars, call, count>>

\* content = await page.content() (line 494)
BrowserContent(r, ok) ==
    /\ pw.at[r] = "content"
    /\ IF ok THEN Moved(r, "close") ELSE Leaving(r, Failed)
    /\ UNCHANGED <<corevars, botvars, call, count>>

\* await browser.close() (line 496), then the captured requests and the
\* parsed content (lines 498-510)
BrowserClose(r, ok, resp) ==
    /\ pw.at[r] = "close"
    /\ IF ok
       THEN pw' = [pw EXCEPT !.open = @ \ {[id |-> pw.own[r], by |-> r]},
                             !.own[r] = 0,
                             !.at[r] = "exit",
                             !.res[r] = resp]
       ELSE Leaving(r, Failed)
    /\ UNCHANGED <<corevars, botvars, call, count>>

\* the `async with` block is left and the method returns or raises
BrowserExit(r) ==
    /\ pw.at[r] = "exit"
    /\ pw' = [pw EXCEPT !.open = Stopped(@, r), !.own[r] = 0,
                        !.at[r] = "out", !.res[r] = Failed]
    /\ EndAttempt(r, pw.res[r], 0)
    /\ UNCHANGED <<botvars, call, count>>

\* what does not change when wait_for's timer does
timerless == <<bpc, text, sem_value, waiters, report, user_last_request,
               clock, accepted, msgs, logged>>

\* wait_for's deadline is over while the method awaits: the click's bare
\* except drops the CancelledError and the method goes on with the
\* content; anywhere else the error is on its way out of the block
BrowserCancel(r) ==
    /\ deadline[r] = "armed"
    /\ pw.at[r] \in {"launch", "page", "click", "content", "close"}
    /\ deadline' = [deadline EXCEPT ![r] = "fired"]
    /\ Moved(r, IF pw.at[r] = "click" THEN "content" ELSE "cancelled")
    /\ UNCHANGED <<corevars, timerless, call, count>>

\* the CancelledError leaves the block, the wrapper and extract
BrowserCancelled(r) ==
    /\ pw.at[r] = "cancelled"
    /\ pw' = [pw EXCEPT !.open = Stopped(@, r), !.own[r] = 0,
                        !.at[r] = "out"]
    /\ Cancelled(r)
    /\ UNCHANGED <<botvars, call, count>>

\* wait_for(extract(...), EXTRACTION_TIMEOUT): the call starts, the timer
\* is armed
BrowserStart(r) ==
    /\ Started(Reqs) <= MaxCalls
    /\ Start(r, ConcUrl[r])
    /\ deadline' = [deadline EXCEPT ![r] = "armed"]
    /\ UNCHANGED <<timerless, call, auxvars>>

\* an attempt of one of the first seven methods ends; those of request 2
\* fail
BrowserOther(r, resp) ==
    /\ ~InBrowser(r)
    /\ r = 2 => resp = Failed
    /\ EndAttempt(r, resp, 0)
    /\ UNCHANGED <<botvars, call, auxvars>>

NextBrowser ==
    \/ \E r \in Reqs : BrowserStart(r)
    \/ \E r \in Reqs, resp \in BotResponses[1] : BrowserOther(r, resp)
    \/ \E r \in Reqs : Wake(r) /\ UNCHANGED <<botvars, call, auxvars>>
    \/ \E r \in Reqs, ok \in BOOLEAN : BrowserBegin(r, ok)
    \/ \E r \in Reqs, ok \in BOOLEAN : BrowserLaunch(r, ok)
    \/ \E r \in Reqs, ok \in BOOLEAN : BrowserPage(r, ok)
    \/ \E r \in Reqs : BrowserClick(r)
    \/ \E r \in Reqs, ok \in BOOLEAN : BrowserContent(r, ok)
    \/ \E r \in Reqs, ok \in BOOLEAN, resp \in BrowserResults :
          BrowserClose(r, ok, resp)
    \/ \E r \in Reqs : BrowserExit(r)
    \/ \E r \in Reqs : BrowserCancel(r)
    \/ \E r \in Reqs : BrowserCancelled(r)

\* the flag is whatever the configuration says
InitBrowser ==
    /\ Constructed
    /\ call = NoCall
    /\ pw \in {Browsers(flag) : flag \in BOOLEAN}

SpecBrowser == InitBrowser /\ [][NextBrowser]_vars

Input(kind, a) == [kind |-> kind, arg |-> a, fn |-> "none", val |-> ""]

\* every choice of set and unset link fields
Videos ==
    {VideoInfo(d, dl, s, m, "", <<0, 0>>) :
        d \in {"", "http://cdn/direct.mp4"},
        dl \in {"", "http://cdn/download.mp4"},
        s \in {"", "http://cdn/stream.mp4"},
        m \in {"", "http://cdn/index.m3u8"}}

\* str.upper() on one character
UpperChar(c) ==
    IF c \in CharsOf(Lowers)
    THEN At(Uppers, CHOOSE i \in 1..Len(Lowers) : At(Lowers, i) = c)
    ELSE c

\* str.upper()
RECURSIVE Upper(_)
Upper(s) == IF s = "" THEN "" ELSE UpperChar(At(s, 1)) \o Upper(From(s, 2))

\* each cataloged domain: bare, in upper case, inside a sentence, in a link
DomainTexts ==
    UNION {{domain, Upper(domain), "see " \o domain \o " now",
            "https://" \o Upper(domain) \o "/"} : domain \in get_all_domains}

\* the texts handed to the registry
UrlTexts ==
    {"", "hello", "abc", "abcdef", "abcdefgh", "terabox", "x y",
     "https://www.terabox.com/s/a",
     "https://www.terabox.com/s/ab",
     "https://www.terabox.com/s/abcd",
     "https://www.terabox.com/s/abcdef",
     "https://www.terabox.com/s/1xyz789",
     "https://www.terabox.com/s/a-b_c",
     "https://www.terabox.com/s/ABCDEF",
     "https://www.terabox.com/s/ab?surl=xyz123",
     "https://www.terabox.com/s/ab?id=zz",
     "https://www.terabox.com/s/abcdef?surl=xyz123",
     "https://www.terabox.com/s/",
     "https://www.terabox.com/",
     "https://teraboxlinks.site/s/1abc123def",
     "https://1024tera.com/wap/share/link?surl=abc123",
     "https://mirrobox.com/s/test123",
     "https://1024terabox.com/s/abcdef",
     "https://teraboxapp.com/s/abcdef",
     "https://www.teraboxapp.com/s/abcdef?ref=mirrobox.com",
     "https://terabox.app/s/abcdef",
     "https://dubox.com/s/abcdef",
     "https://terabox.com/sharing/link?surl=a/b",
     "https://example.com/?s=mirrobox.com",
     "https://example.com/?id=7",
     "http://example.com/abcdef",
     "HTTPS://WWW.TERABOX.COM/s/abcdef",
     "/s/abcdef",
     "surl=abcdef"}

\* str.endswith(lit)
EndsWith(s, lit) == StartsAt(s, Len(s) - Len(lit) + 1, lit)

\* an entry of the "list" of a share: a directory or a file
File(isdir, name) == [isdir |-> isdir, server_filename |-> name]

\* the non-empty file lists of a share; an empty list makes the strategy
\* raise before it selects
FileLists ==
    LET entries == {File(1, "clips"), File(1, "movies.mp4"),
                    File(0, "notes.txt"), File(0, "a.mp4.txt"),
                    File(0, "b.mp4"), File(0, "c.m4v"), File(0, "D.MKV")}
    IN  {<<e>> : e \in entries} \cup {<<e, f>> : e, f \in entries}

\* the tests of the two loops on a lower-cased file name
Accepts(test, filename) ==
    CASE test = "endswith" ->
             \E ext \in {".mp4", ".mkv", ".avi", ".mov", ".wmv", ".flv",
                         ".webm", ".m4v"} : EndsWith(filename, ext)
      [] test = "in" ->
             \E ext \in {".mp4", ".mkv", ".avi", ".mov", ".wmv", ".flv",
                         ".webm"} : Contains(filename, ext)
      [] test = "any" -> TRUE

\* for file in file_list: the index of the first entry from k on with
\* isdir == 0 that passes the test, 0 when the loop ends without one
RECURSIVE FirstFile(_, _, _)
FirstFile(file_list, k, test) ==
    IF k > Len(file_list) THEN 0
    ELSE IF /\ file_list[k].isdir = 0
            /\ Accepts(test, Lower(file_list[k].server_filename))
    THEN k
    ELSE FirstFile(file_list, k + 1, test)

\* TeraboxExtractor._find_video_in_list, as method_api_v2 and
\* method_mobile_api call it
find_video_in_list(file_list) ==
    LET video == FirstFile(file_list, 1, "endswith")
        plain == FirstFile(file_list, 1, "any")
    IN  IF video # 0 THEN file_list[video]
        ELSE IF plain # 0 THEN file_list[plain]
        ELSE file_list[1]

\* the selection written out in method_api_v1
api_v1_video_file(file_list) ==
    LET video == FirstFile(file_list, 1, "in")
    IN  IF video # 0 THEN file_list[video] ELSE file_list[1]

\* TeraboxBot._send_result: the link in the text and behind the two buttons
send_result(v) ==
    LET direct_link == get_best_link(v)
    IN  [text |-> direct_link, play |-> direct_link, download |-> direct_link]

\* fn is called with the argument and returns val
Apply(kinds, fn, val) ==
    /\ call.kind \in kinds
    /\ call' = [call EXCEPT !.fn = fn, !.val = val]
    /\ UNCHANGED <<corevars, botvars, auxvars>>

\* normalize_url is called with the URL it returned
NormalizeAgain ==
    /\ call.kind = "url"
    /\ call.fn = "normalize_url"
    /\ call' = [call EXCEPT !.arg = call.val, !.val = normalize_url(call.val)]
    /\ UNCHANGED <<corevars, botvars, auxvars>>

InitFn ==
    /\ Constructed
    /\ pw = Browsers(USE_BROWSER_FALLBACK)
    /\ \/ call \in {Input("video", v) : v \in Videos}
       \/ call \in {Input("url", u) : u \in UrlTexts}
       \/ call \in {Input("domain", u) : u \in DomainTexts}
       \/ call \in {Input("files", l) : l \in FileLists}

NextFn ==
    \/ Apply({"video"}, "is_valid", is_valid(call.arg))
    \/ Apply({"video"}, "get_best_link", get_best_link(call.arg))
    \/ Apply({"video"}, "_send_result", send_result(call.arg))
    \/ Apply({"url", "domain"}, "is_terabox_url", is_terabox_url(call.arg))
    \/ Apply({"url"}, "extract_share_id", extract_share_id(call.arg))
    \/ Apply({"url", "domain"}, "get_api_domain", get_api_domain(call.arg))
    \/ Apply({"url"}, "normalize_url", normalize_url(call.arg))
    \/ Apply({"files"}, "method_api_v1", api_v1_video_file(call.arg))
    \/ Apply({"files"}, "method_api_v2", find_video_in_list(call.arg))
    \/ Apply({"files"}, "method_mobile_api", find_video_in_list(call.arg))
    \/ NormalizeAgain

SpecFn == InitFn /\ [][NextFn]_vars

(***************************************************************************)
(* The Strategy Runner: TeraboxExtractor.extract.                          *)
(***************************************************************************)

\* C1: as soon as a method returns a result whose is_valid() is true,
\* extract returns exactly that result (the object the method of this very
\* call built) and no later method of EXTRACTION_METHODS is invoked: a call
\* holding a valid result is over, and the methods it invoked are those up to
\* and including the one whose result it returned.
C1_FirstValidResultIsReturned ==
    \A r \in Reqs :
        /\ is_valid(result[r]) => pc[r] = "done" /\ outcome[r].kind = "ok"
        /\ (pc[r] = "done" /\ outcome[r].kind = "ok") =>
              /\ is_valid(outcome[r].value)
              /\ outcome[r].value = result[r]
              /\ outcome[r].value.obj = <<r, calls[r]>>
              /\ outcome[r].by \in 1..NMethods
              /\ invoked[r] = 1..outcome[r].by

\* method 1 raised, method 2 returned an empty-link result, method 3 returned
\* a link: the call is over with method 3's result
C1_Witness ==
    \E r \in Reqs :
        /\ pc[r] = "done" /\ outcome[r].kind = "ok" /\ outcome[r].by = 3
        /\ last_raiser[r] = 1 /\ ~all_raised[r]
        /\ invoked[r] = {1, 2, 3}

\* C2: within one extract call the methods run one after the other in the
\* order of EXTRACTION_METHODS: the call starts with the first method, the
\* methods started so far are always the prefix ending at the one in flight,
\* and method k+1 is started only by the step in which method k either raised
\* on its last attempt or returned a result that is not valid; this holds for
\* every call of every request, whatever happened before.
C2_SequentialFixedOrder ==
    [][\A r \in Reqs :
          /\ pc'[r] \in {"body", "sleep"} =>
                /\ method'[r] \in 1..NMethods
                /\ invoked'[r] = 1..method'[r]
          /\ (pc[r] \in {"idle", "done"} /\ pc'[r] = "body") => method'[r] = 1
          /\ (pc[r] \in {"body", "sleep"} /\ invoked'[r] # invoked[r]) =>
                /\ pc[r] = "body"
                /\ method'[r] = method[r] + 1
                /\ attempt'[r] = 0
                /\ ~is_valid(result'[r])
                /\ IF last_raiser'[r] # last_raiser[r]
                   THEN /\ last_raiser'[r] = method[r]
                        /\ attempt[r] = max_retries[method[r]] - 1
                   ELSE /\ ~all_raised'[r]
                        /\ result'[r].obj = <<r, calls[r]>>
      ]_vars

\* a later call of a request has worked its way to the last method
C2_Witness ==
    \E r \in Reqs :
        /\ pc[r] = "body" /\ method[r] = NMethods /\ calls[r] >= 2
        /\ invoked[r] = 1..NMethods

C4_AggregateNamesLastRecordedError ==
    \A r \in Reqs :
        (pc[r] = "done" /\ outcome[r].kind = "AllFailed") =>
            /\ invoked[r] = 1..NMethods
            /\ outcome[r].error # NoError
            /\ outcome[r].error.by = last_raiser[r]
            /\ outcome[r].error.at = max_retries[last_raiser[r]] - 1
            /\ all_raised[r] =>
                  outcome[r].error = Error(NMethods, max_retries[NMethods] - 1)

\* all eight methods raised
C4_Witness ==
    \E r \in Reqs :
        /\ pc[r] = "done" /\ outcome[r].kind = "AllFailed" /\ all_raised[r]
        /\ outcome[r].error.by = NMethods

\* C5: a method that returns an invalid result leaves an error of its own as
\* the last error, so the aggregate error raised after exhaustion always
\* names an error of the last method of the list.
C5_AggregateNamesLastFailedStrategy ==
    \A r \in Reqs :
        (pc[r] = "done" /\ outcome[r].kind = "AllFailed") =>
            /\ outcome[r].error # NoError
            /\ outcome[r].error.by = NMethods

\* C6: every value extract returns, from a method or from the cache, is
\* valid, and every entry of link_cache is valid.
C6_OnlyValidResults ==
    /\ \A i \in 1..Len(link_cache) : is_valid(link_cache[i].value)
    /\ \A k \in Keys : is_valid(stored[k]) \/ stored[k] = NoVideo
    /\ \A r \in Reqs :
          (pc[r] = "done" /\ outcome[r].kind \in {"ok", "hit"}) =>
              is_valid(outcome[r].value)

\* a call was served from the cache the result an earlier call had stored
C6_Witness ==
    \E r \in Reqs :
        /\ pc[r] = "done" /\ outcome[r].kind = "hit"
        /\ is_valid(outcome[r].value)
        /\ outcome[r].value.obj[2] < calls[r]

\* C7: for an input is_terabox_url rejects, extract raises the invalid-URL
\* error without invoking a method, whatever the cache holds.
C7_UnrecognizedInputIsRejected ==
    \A r \in Reqs :
        (pc[r] # "idle" /\ ~IsTerabox(url[r])) =>
            /\ pc[r] = "done"
            /\ outcome[r] = InvalidUrl
            /\ invoked[r] = {}

\* C8: for a recognized URL without an extractable share id, extract raises
\* the no-share-id error, which differs from the invalid-URL error, and
\* invokes no method.
C8_NoShareIdIsRejected ==
    \A r \in Reqs :
        (pc[r] # "idle" /\ IsTerabox(url[r]) /\ ~Truthy(ShareIdOf(url[r]))) =>
            /\ pc[r] = "done"
            /\ outcome[r] = NoShareId
            /\ outcome[r] # InvalidUrl
            /\ invoked[r] = {}

\* C9: no method is invoked with a share id shorter than 4 characters.
C9_ShortIdIsRejected ==
    \A r \in Reqs :
        (pc[r] # "idle" /\ invoked[r] # {}) => Len(share_id[r]) >= 4

C11_CacheRoundTripAndExpiry ==
    [][\A r \in Reqs :
         /\ (pc[r] = "body" /\ outcome'[r].kind = "ok") =>
              /\ Prologue(link_cache', url[r], now') = CacheHit(outcome'[r].value)
              /\ \E i \in 1..Len(link_cache') :
                    /\ link_cache'[i].key = CacheKeyOf(url[r])
                    /\ link_cache'[i].expires - now = 3600
         /\ (calls'[r] = calls[r] + 1 /\ outcome'[r].kind = "hit") =>
              \E i \in 1..Len(link_cache) :
                    /\ link_cache[i].key = CacheKeyOf(url'[r])
                    /\ link_cache[i].value = outcome'[r].value
                    /\ now - (link_cache[i].expires - ttl) < 3600
      ]_vars

\* a second call for a key whose entry was inserted exactly ttl seconds ago
\* (the entry is still held) has missed and runs the methods
C11_Witness ==
    /\ now = ttl
    /\ calls[1] = 2
    /\ pc[1] = "body"
    /\ \E i \in 1..Len(link_cache) :
          /\ link_cache[i].key = CacheKeyOf(url[1])
          /\ link_cache[i].expires = ttl

\* C12: the cache never holds more than maxsize entries (MaxSize stands for
\* the 1000 of utils.py), nor two entries for one key; and the insert of a
\* new key into a full cache drops an entry that was there, leaves the
\* cache full (when none of its entries had expired) with the new entry in
\* it, and the call that inserts ends with the result it stored.
C12_CacheIsBoundedAndEvicts ==
    /\ Len(link_cache) <= MaxSize
    /\ [][/\ Len(link_cache') <= MaxSize
          /\ \A i, j \in 1..Len(link_cache') :
                link_cache'[i].key = link_cache'[j].key => i = j
          /\ \A r \in Reqs :
                LET k == CacheKeyOf(url[r])
                IN  (/\ pc[r] = "body"
                     /\ link_cache' # link_cache
                     /\ Len(link_cache) = MaxSize
                     /\ \A i \in 1..Len(link_cache) : link_cache[i].key # k)
                    => /\ \E i \in 1..Len(link_cache) :
                             \A j \in 1..Len(link_cache') :
                                link_cache'[j].key # link_cache[i].key
                       /\ (\A i \in 1..Len(link_cache) :
                              now < link_cache[i].expires)
                            => Len(link_cache') = MaxSize
                       /\ pc'[r] = "done"
                       /\ outcome'[r].kind = "ok"
                       /\ is_valid(outcome'[r].value)
                       /\ cache_contains(link_cache', k, now')
                       /\ cache_getitem(link_cache', k) = outcome'[r].value
      ]_vars

\* the second call has just stored its result in a full cache, and the live
\* entry of another key was dropped for it
C12_Witness ==
    /\ calls[1] = 2
    /\ outcome[1].kind = "ok"
    /\ evicted # {}
    /\ Len(link_cache) = MaxSize
    /\ link_cache[Len(link_cache)].key = CacheKeyOf(url[1])
    /\ CacheKeyOf(url[1]) \notin evicted

(***************************************************************************)
(* The Retry Wrapper: utils.retry_async around each method.                *)
(***************************************************************************)

\* C13: the wrapper hands an exception to extract only when the method's
\* body has been invoked exactly N times, all of them raising (N is 3 for
\* the first seven methods and 2 for browser emulation), and the exception
\* it hands over is the one of the last invocation; a body is never invoked
\* more than N times; and when an invocation returns, extract receives that
\* very value at once and the method is not invoked again.
C13_RetryBoundsAttempts ==
    [][\A r \in Reqs :
         LET k == method[r]
             N == IF k = 8 THEN 2 ELSE 3
             handed == IF k < NMethods THEN last_error'[r]
                       ELSE outcome'[r].error
         IN  /\ tries'[r] <= (IF method'[r] = 8 THEN 2 ELSE 3)
             /\ (pc[r] = "body" /\ last_raiser'[r] # last_raiser[r]) =>
                   /\ tries[r] = N
                   /\ last_raiser'[r] = k
                   /\ handed = Error(k, N - 1)
                   /\ method'[r] # k
             /\ (pc[r] = "body" /\ pc'[r] = "sleep") =>
                   /\ tries[r] < N
                   /\ method'[r] = k
             /\ (/\ pc[r] = "body"
                 /\ <<pc[r], method[r], result[r]>>' # <<pc[r], k, result[r]>>
                 /\ pc'[r] # "sleep"
                 /\ last_raiser'[r] = last_raiser[r]) =>
                   /\ method'[r] # k
                   /\ \E resp \in Responses \cup ConcResponses :
                         LET b == Body(k, resp, share_id[r], <<r, calls[r]>>)
                         IN  ~b.raises /\ result'[r] = b.value
      ]_vars

\* every method was tried until its wrapper gave up, the last of them being
\* browser emulation, whose second invocation raised the error reported
C13_Witness ==
    /\ pc[1] = "done"
    /\ all_raised[1]
    /\ invoked[1] = 1..NMethods
    /\ outcome[1] = AllFailed(Error(8, 1))

\* C14: after failed attempt number a (counted from 0) that is not the
\* method's last, the wrapper sleeps delay * 2^a seconds plus a jitter of at
\* least 0 and less than 1 second before the next attempt: 1 s and then 2 s
\* (plus jitter) for the first seven methods, 2 s (plus jitter) for browser
\* emulation; after the last failed attempt it does not sleep, the exception
\* goes to extract in the same step.  Times are in milliseconds.
C14_BackoffWaits ==
    [][\A r \in Reqs :
         LET k == method[r]
             a == tries[r] - 1
             base == IF k = 8 THEN 2000 ELSE IF a = 0 THEN 1000 ELSE 2000
         IN  /\ (pc[r] = "body" /\ pc'[r] = "sleep") =>
                   /\ a = attempt[r]
                   /\ base <= sleeping'[r]
                   /\ sleeping'[r] < base + 1000
             /\ (pc[r] = "sleep" /\ pc'[r] # "sleep") =>
                   /\ pc'[r] = "body"
                   /\ method'[r] = k
                   /\ tries'[r] = tries[r] + 1
             /\ (pc[r] = "body" /\ last_raiser'[r] # last_raiser[r]) =>
                   /\ pc'[r] # "sleep"
                   /\ sleeping'[r] = 0
             /\ pc'[r] # "sleep" => sleeping'[r] = 0
      ]_vars

\* the second attempt of the first method has failed and the wrapper sleeps
\* 2 s plus the largest jitter
C14_Witness ==
    /\ pc[1] = "sleep"
    /\ method[1] = 1
    /\ attempt[1] = 1
    /\ sleeping[1] = 2999

(***************************************************************************)
(* The bot: TeraboxBot.handle_message.                                     *)
(***************************************************************************)

\* C15: never more requests are inside the `async with self._semaphore`
\* block than the semaphore has permits (MaxPermits stands for the 10 of
\* config.py), and extract runs only for requests inside it; the free
\* permits and the permits owned always add up to MaxPermits, and a request
\* leaving the block, whether after success, after a failure or after the
\* deadline, gives up exactly one permit, which is free afterwards or owned
\* by a request that waited; and a request that waits at the semaphore
\* eventually is inside the block, provided the holders come to an end.
C15_PermitsAreBoundedAndReturned ==
    /\ [](/\ Cardinality(Inside) <= MaxPermits
          /\ sem_value >= 0
          /\ sem_value + Cardinality(Holders) = MaxPermits
          /\ \A r \in Reqs : pc[r] \in {"body", "sleep"} => r \in Inside)
    /\ [][\A r \in Reqs :
            (r \in Inside /\ r \notin Inside') =>
               /\ bpc'[r] \in {"idle", "error", "timeout"}
               /\ Cardinality(Holders' \ {r}) + sem_value'
                     = Cardinality(Holders \ {r}) + sem_value + 1
         ]_vars
    /\ \A r \in Reqs : (bpc[r] = "waiting") ~> (r \in Inside)

\* request 2 queued at the semaphore while request 1 held the only permit;
\* request 1 has sent its result and left, and request 2 owns the permit
C15_Witness ==
    /\ msgs = 2
    /\ report[1] = "sent"
    /\ bpc[1] = "idle"
    /\ bpc[2] = "granted"
    /\ sem_value = 0

\* C16: when the deadline of wait_for expires while extract is in flight, the
\* cancellation leaves extract in that very step and the request goes to the
\* timeout handler; and once the deadline of a request has expired, its
\* extract call starts no further step (no method, attempt or sleep) and
\* stores nothing in the cache.
C16_DeadlineCancelsTheChain ==
    [][\A r \in Reqs :
         /\ (deadline[r] = "armed" /\ deadline'[r] = "fired") =>
               /\ pc'[r] = "done"
               /\ bpc'[r] = "timeout"
         /\ deadline[r] = "fired" =>
               /\ <<pc[r], method[r], attempt[r], tries[r], result[r]>>'
                     = <<pc[r], method[r], attempt[r], tries[r], result[r]>>
               /\ \A i \in 1..Len(link_cache') :
                     link_cache'[i].value.obj[1] = r =>
                        \E j \in 1..Len(link_cache) :
                           link_cache[j] = link_cache'[i]
      ]_vars

\* C17: a request is reported as timed out exactly when the deadline of its
\* wait_for expired: whenever the user has been told how the request ended,
\* the answer is the timeout message if and only if the deadline fired (so
\* a failure of the methods is never reported as a timeout, and an expired
\* deadline never as a failure of all methods or as a result).
C17_TimeoutIffDeadlineFired ==
    \A r \in Reqs :
       report[r] \in {"sent", "failed", "timeout"} =>
          (report[r] = "timeout" <=> deadline[r] = "fired")

\* C18: a message of a user is accepted by the rate limit only if the user
\* had no accepted message before or the last one came at least 3 seconds
\* earlier, and it is refused only if the user's own last accepted message
\* came less than 3 seconds earlier; neither changes what is recorded for
\* another user; a refused message leaves every request and extract
\* untouched, a request goes to the semaphore only in the step that accepts
\* its message, and extract is called only for a request that went through.
C18_RateLimitPerUser ==
    [][/\ \A id \in Users :
            /\ accepted'[id].n # accepted[id].n =>
                  /\ accepted'[id].n = accepted[id].n + 1
                  /\ accepted'[id].at = clock'
                  /\ accepted[id].n = 0 \/ clock' - accepted[id].at >= 3
                  /\ \A o \in Users \ {id} : accepted'[o] = accepted[o]
            /\ accepted'[id].refused # accepted[id].refused =>
                  /\ accepted[id].n > 0
                  /\ clock' - accepted[id].at < 3
                  /\ \A o \in Users \ {id} : accepted'[o] = accepted[o]
                  /\ UNCHANGED <<bpc, pc, calls, link_cache>>
       /\ \A r \in Reqs :
            /\ (bpc[r] = "idle" /\ bpc'[r] = "gate") =>
                  \E id \in Users : accepted'[id].n = accepted[id].n + 1
            /\ calls'[r] # calls[r] => bpc[r] = "inside"
      ]_vars

\* user 101 was accepted 2 seconds after user 102 and refused 2 seconds
\* after that
C18_Witness ==
    /\ accepted[101].n = 1
    /\ accepted[101].refused = 1
    /\ accepted[102].n = 1
    /\ accepted[101].at = accepted[102].at + 2
    /\ clock = accepted[101].at + 2

\* C19: a request whose extract call produced a valid result is never
\* reported as an extraction failure, whatever log_request does.
C19_LogCannotFailTheRequest ==
    \A r \in Reqs :
       report[r] = "failed" => outcome[r].kind \notin {"ok", "hit"}


(***************************************************************************)
(* The cache under concurrent requests.                                    *)
(***************************************************************************)

\* C20: with requests interleaving at their suspension points, every change
\* of the cache is one complete insert of one request that returns in that
\* very step: the new entry is the last one, holds the returned result
\* under the request's key until ttl seconds from now, is the only entry
\* of its key, the cache is within its size, no entry in it has expired,
\* the entries before it are entries that were there, in their order, and no
\* other request moves in the step; and a call served from the cache
\* returns the valid result of one whole live entry, leaving the cache as
\* it is.
C20_CacheOperationsAreAtomic ==
    [][/\ link_cache' # link_cache =>
            \E r \in Reqs :
               LET k == CacheKeyOf(url[r])
                   n == Len(link_cache')
               IN  /\ pc[r] = "body" /\ pc'[r] = "done"
                   /\ outcome'[r].kind = "ok"
                   /\ is_valid(outcome'[r].value)
                   /\ n >= 1 /\ n <= MaxSize
                   /\ link_cache'[n] = [key |-> k,
                                        value |-> outcome'[r].value,
                                        expires |-> now + ttl]
                   /\ \A i, j \in 1..n :
                         link_cache'[i].key = link_cache'[j].key => i = j
                   /\ \A i \in 1..n : now < link_cache'[i].expires
                   /\ SubSeq(link_cache', 1, n - 1)
                        = SelectSeq(link_cache,
                                    LAMBDA e : /\ e.key # k
                                               /\ \E i \in 1..(n - 1) :
                                                     link_cache'[i] = e)
                   /\ \A q \in Reqs \ {r} :
                         /\ pc'[q] = pc[q]
                         /\ outcome'[q] = outcome[q]
                         /\ calls'[q] = calls[q]
       /\ \A r \in Reqs :
            (calls'[r] = calls[r] + 1 /\ outcome'[r].kind = "hit") =>
               /\ link_cache' = link_cache
               /\ is_valid(outcome'[r].value)
               /\ \E i \in 1..Len(link_cache) :
                     /\ link_cache[i].key = CacheKeyOf(url'[r])
                     /\ link_cache[i].value = outcome'[r].value
                     /\ now < link_cache[i].expires
                     /\ \A j \in 1..Len(link_cache) :
                           link_cache[j].key = link_cache[i].key => j = i
      ]_vars

\* both requests missed the cache, ran at the same time and stored
\* different results for the one key: the cache holds the later one alone
C20_Witness ==
    /\ ticks = 0
    /\ \A r \in Reqs : pc[r] = "done" /\ outcome[r].kind = "ok"
    /\ CacheKeyOf(url[1]) = CacheKeyOf(url[2])
    /\ outcome[1].value.direct_link # outcome[2].value.direct_link
    /\ Len(link_cache) = 1
    /\ link_cache[1].value \in {outcome[1].value, outcome[2].value}


(***************************************************************************)
(* No single flight.                                                       *)
(***************************************************************************)
\* C30: there is no single-flight de-duplication.  While one request is
\* extracting a share that is not cached, another request for the same
\* share can start at once, and it enters its own first strategy; a request
\* inside a strategy can always finish its attempt, and one asleep in the
\* wrapper can always wake, whatever the other request is doing.  Each
\* request runs its own strategies from the first one in order, a step of
\* one request leaves the other's progress alone, a request that succeeds
\* returns the valid result of its own strategy, and the cache's entry for
\* the key is from that step on this result, whatever was stored before.
C30_NoSingleFlight ==
    /\ [](\A r \in Reqs :
            /\ \A q \in Reqs \ {r} :
                 (/\ pc[r] \in {"idle", "done"}
                  /\ calls[r] < MaxCalls
                  /\ pc[q] \in {"body", "sleep"}
                  /\ CacheKeyOf(url[q]) = CacheKeyOf(ConcUrl[r])
                  /\ ~cache_contains(link_cache, CacheKeyOf(url[q]), now))
                    => ENABLED (/\ Start(r, ConcUrl[r])
                                /\ pc'[r] = "body"
                                /\ method'[r] = 1
                                /\ UNCHANGED <<botvars, call, auxvars>>)
            /\ pc[r] = "body" =>
                 \A resp \in ConcResponses :
                    ENABLED (/\ EndAttempt(r, resp, 0)
                             /\ UNCHANGED <<botvars, call, auxvars>>)
            /\ pc[r] = "sleep" =>
                 ENABLED (Wake(r) /\ UNCHANGED <<botvars, call, auxvars>>)
            /\ pc[r] \in {"body", "sleep"} => invoked[r] = 1..method[r])
    /\ [][\A r \in Reqs :
            /\ (pc'[r] # pc[r] \/ method'[r] # method[r]
                \/ attempt'[r] # attempt[r] \/ calls'[r] # calls[r]) =>
                  \A q \in Reqs \ {r} :
                     /\ pc'[q] = pc[q] /\ method'[q] = method[q]
                     /\ attempt'[q] = attempt[q] /\ calls'[q] = calls[q]
                     /\ outcome'[q] = outcome[q] /\ invoked'[q] = invoked[q]
            /\ (pc[r] = "body" /\ pc'[r] = "done"
                /\ outcome'[r].kind = "ok") =>
                  LET k == CacheKeyOf(url[r])
                  IN  /\ is_valid(outcome'[r].value)
                      /\ outcome'[r].value.obj = <<r, calls[r]>>
                      /\ outcome'[r].by = method[r]
                      /\ cache_contains(link_cache', k, now)
                      /\ cache_getitem(link_cache', k) = outcome'[r].value
                      /\ \A i, j \in 1..Len(link_cache') :
                            (link_cache'[i].key = k /\ link_cache'[j].key = k)
                               => i = j
            /\ (pc'[r] = pc[r] \/ pc'[r] # "done"
                \/ outcome'[r].kind # "ok") =>
                  (link_cache' = link_cache
                   \/ \E q \in Reqs \ {r} :
                         /\ pc[q] = "body" /\ pc'[q] = "done"
                         /\ outcome'[q].kind = "ok")
         ]_vars

\* the two requests missed the cache for the one share and ran at the same
\* time; request 2 returned the result of its first strategy, request 1
\* the result of its second strategy afterwards, and the cache holds the
\* result of request 1 alone
C30_Witness ==
    /\ ticks = 0
    /\ calls = <<1, 1>>
    /\ \A r \in Reqs : pc[r] = "done" /\ outcome[r].kind = "ok"
    /\ outcome[1].by = 2 /\ outcome[2].by = 1
    /\ outcome[1].value.obj = <<1, 1>> /\ outcome[2].value.obj = <<2, 1>>
    /\ outcome[1].value.direct_link # outcome[2].value.direct_link
    /\ Len(link_cache) = 1
    /\ link_cache[1].value = outcome[1].value
    /\ evicted = {}

(***************************************************************************)
(* VideoInfo and the registry as functions.                                *)
(***************************************************************************)

\* C21: is_valid() is true exactly when one of direct_link, download_link,
\* stream_link, m3u8_link is not empty, and false for VideoInfo() with
\* every field at its default.
C21_ValidIffSomeLink ==
    call.fn = "is_valid" =>
        /\ call.val = (\E f \in {"direct_link", "download_link",
                                 "stream_link", "m3u8_link"} :
                          call.arg[f] # "")
        /\ call.arg = NoVideo => call.val = FALSE

\* is_valid() was called on a VideoInfo whose only link is m3u8_link
C21_Witness ==
    /\ call.fn = "is_valid"
    /\ call.arg.m3u8_link # "" /\ call.arg.direct_link = ""
    /\ call.arg.download_link = "" /\ call.arg.stream_link = ""
    /\ call.val = TRUE


\* C22: get_best_link returns the first link that is not empty in the order
\* stream_link, direct_link, m3u8_link, download_link, hence stream_link
\* when stream_link and direct_link are both set; what it returns is not
\* empty exactly when is_valid() is true; and _send_result presents that
\* link, in the text and behind both buttons.
C22_BestLinkPrecedence ==
    LET order == <<"stream_link", "direct_link", "m3u8_link", "download_link">>
        set == {i \in 1..4 : call.arg[order[i]] # ""}
        best == IF set = {} THEN ""
                ELSE call.arg[order[CHOOSE i \in set : \A j \in set : i <= j]]
    IN  /\ call.fn = "get_best_link" =>
              /\ call.val = best
              /\ (call.val # "") = is_valid(call.arg)
              /\ (call.arg.stream_link # "" /\ call.arg.direct_link # "")
                    => call.val = call.arg.stream_link
        /\ call.fn = "_send_result" =>
              /\ call.val.text = best
              /\ call.val.play = best
              /\ call.val.download = best

\* a result with stream_link and direct_link both set was presented: the
\* user got stream_link
C22_Witness ==
    /\ call.fn = "_send_result"
    /\ call.arg.stream_link # "" /\ call.arg.direct_link # ""
    /\ call.val.text = call.arg.stream_link
    /\ call.val.text # call.arg.direct_link


\* C23: normalize_url applied to what normalize_url returned returns it
\* unchanged; and the share id and the API domain extracted from the URL
\* normalize_url returned are those extracted from its argument.
C23_NormalizeIsIdempotent ==
    [][call'.fn = "normalize_url" =>
          /\ (call.fn = "normalize_url" /\ call'.arg = call.val)
                => call'.val = call.val
          /\ extract_share_id(call'.val) = extract_share_id(call'.arg)
          /\ get_api_domain(call'.val) = get_api_domain(call'.arg)
      ]_vars


\* C24: is_terabox_url is true for every text that holds one of the
\* cataloged domains (any of the seven lists), in whatever case and with or
\* without a scheme, and false for the empty text.
C24_CatalogedDomainIsRecognized ==
    LET catalog == Range(PRIMARY_DOMAINS) \cup Range(OFFICIAL_MIRRORS)
                   \cup Range(LINK_SITES) \cup Range(MIRROR_DOMAINS)
                   \cup Range(ALTERNATIVE_DOMAINS) \cup Range(API_DOMAINS)
                   \cup Range(THIRD_PARTY_EXTRACTORS)
    IN  call.fn = "is_terabox_url" =>
            /\ (\E domain \in catalog :
                   Contains(Lower(call.arg), Lower(domain)))
                 => call.val = TRUE
            /\ call.arg = "" => call.val = FALSE

\* a cataloged domain in upper case and without scheme was recognized
C24_Witness ==
    /\ call.fn = "is_terabox_url"
    /\ call.arg = "PAN.BAIDU.COM"
    /\ call.val = TRUE


\* C25: for a URL https://www.terabox.com/s/<id>, <id> a run of letters,
\* digits, "_" and "-", extract_share_id returns exactly <id>;
\* "https://teraboxlinks.site/s/1abc123def" yields "1abc123def" and is a
\* Terabox URL; "https://1024tera.com/wap/share/link?surl=abc123" yields
\* "abc123".
C25_ShareIdOfShareLink ==
    LET prefix == "https://www.terabox.com/s/"
        id == From(call.arg, Len(prefix) + 1)
    IN  /\ call.fn = "extract_share_id" =>
              /\ (/\ StartsAt(call.arg, 1, prefix)
                  /\ id # ""
                  /\ \A i \in 1..Len(id) : At(id, i) \in IdChars)
                    => call.val = Some(id)
              /\ call.arg = "https://teraboxlinks.site/s/1abc123def"
                    => call.val = Some("1abc123def")
              /\ call.arg = "https://1024tera.com/wap/share/link?surl=abc123"
                    => call.val = Some("abc123")
        /\ (/\ call.fn = "is_terabox_url"
            /\ call.arg = "https://teraboxlinks.site/s/1abc123def")
              => call.val = TRUE

\* the id of a share link was extracted, here one too short for the
\* patterns
C25_Witness ==
    /\ call.fn = "extract_share_id"
    /\ call.arg = "https://www.terabox.com/s/ab"
    /\ call.val = Some("ab")


\* C26: extract_share_id returns None for every text that holds neither an
\* http(s) scheme nor a structural marker (a /s/ segment, a parameter
\* surl=, shareid=, share_id=, id=, fid= or s=), a bare word of six or more
\* identifier characters included.
C26_NoMarkerNoShareId ==
    LET markers == {"http://", "https://", "/s/", "surl=", "shareid=",
                    "share_id=", "id=", "fid=", "s="}
    IN  (/\ call.fn = "extract_share_id"
         /\ \A m \in markers : ~Contains(Lower(call.arg), m))
           => call.val = None


\* C27: get_api_domain returns a domain for every text: the canonical
\* domain of the first alias of DOMAIN_MAPPING the lowered text holds,
\* failing that the first of PRIMARY_DOMAINS it holds, failing that
\* terabox.com, the first primary domain; what it returns is always one of
\* PRIMARY_DOMAINS.
C27_ApiDomainIsTotal ==
    LET low == Lower(call.arg)
        aliases == {k \in 1..Len(DOMAIN_MAPPING) :
                       Contains(low, DOMAIN_MAPPING[k][1])}
        primaries == {k \in 1..Len(PRIMARY_DOMAINS) :
                         Contains(low, PRIMARY_DOMAINS[k])}
        first(S) == CHOOSE k \in S : \A j \in S : k <= j
    IN  call.fn = "get_api_domain" =>
            /\ call.val \in Range(PRIMARY_DOMAINS)
            /\ call.val = IF aliases # {}
                          THEN DOMAIN_MAPPING[first(aliases)][2]
                          ELSE IF primaries # {}
                          THEN PRIMARY_DOMAINS[first(primaries)]
                          ELSE "terabox.com"
            /\ PRIMARY_DOMAINS[1] = "terabox.com"

\* a link through an alias that also holds a primary domain got the alias's
\* canonical domain
C27_Witness ==
    /\ call.fn = "get_api_domain"
    /\ call.arg = "https://www.teraboxapp.com/s/abcdef?ref=mirrobox.com"
    /\ call.val = "terabox.com"

(***************************************************************************)
(* The cache is written by successful extractions only.                    *)
(***************************************************************************)
\* C28: the cache is written only on successful extraction.  A step that
\* changes link_cache is the step in which a call returns a valid result,
\* and all it does is store that result under the call's key: an entry that
\* goes had expired, had the same key, or made room in a full cache.  The
\* step that ends a call with a failure (invalid URL, no share id, all
\* strategies failed) or by the deadline's cancellation leaves link_cache as
\* it was, as every earlier step of the call and every step of the clock.
C28_CacheWrittenOnlyOnSuccess ==
    [][/\ link_cache' # link_cache =>
            \E r \in Callers :
               /\ pc[r] = "body" /\ pc'[r] = "done"
               /\ outcome'[r].kind = "ok"
               /\ is_valid(outcome'[r].value)
               /\ Len(link_cache') >= 1
               /\ link_cache'[Len(link_cache')]
                    = [key |-> CacheKeyOf(url[r]),
                       value |-> outcome'[r].value,
                       expires |-> now + ttl]
               /\ \A i \in 1..Len(link_cache) :
                     \/ \E j \in 1..(Len(link_cache') - 1) :
                           link_cache'[j] = link_cache[i]
                     \/ ~(now < link_cache[i].expires)
                     \/ link_cache[i].key = CacheKeyOf(url[r])
                     \/ Len(SelectSeq(link_cache,
                                      LAMBDA e : now < e.expires)) = MaxSize
               /\ \A j \in 1..(Len(link_cache') - 1) :
                     \E i \in 1..Len(link_cache) :
                        link_cache'[j] = link_cache[i]
       /\ \A r \in Callers :
            (/\ calls'[r] = calls[r] + 1 \/ pc[r] \in {"body", "sleep"}
             /\ pc'[r] = "done"
             /\ outcome'[r].kind \in {"InvalidUrl", "NoShareId",
                                      "AllFailed", "Cancelled"})
               => link_cache' = link_cache
      ]_vars

\* the cache holds the result of the caller's first call, and the second
\* call, for another share, was cancelled by the deadline
C28_Witness ==
    /\ calls[1] = 2
    /\ pc[1] = "done"
    /\ outcome[1].kind = "Cancelled"
    /\ Len(link_cache) = 1
    /\ link_cache[1].value.obj = <<1, 1>>
    /\ link_cache[1].key # CacheKeyOf(url[1])

(***************************************************************************)
(* The cache lookup of extract.                                            *)
(***************************************************************************)
\* C29: the cache lookup of extract yields a cached result or a miss and
\* never an error.  The step that starts a call either returns a valid
\* result from the cache or goes on to the validation (invalid URL, no
\* share id) and the strategies, also when the entry expires between the
\* membership test and the read.
C29_LookupNeverFails ==
    [][\A r \in Callers :
          calls'[r] = calls[r] + 1 =>
             \/ /\ outcome'[r].kind = "hit"
                /\ is_valid(outcome'[r].value)
             \/ outcome'[r] \in {InvalidUrl, NoShareId}
             \/ /\ outcome'[r] = NoOutcome
                /\ pc'[r] = "body"
                /\ method'[r] = 1
      ]_vars

\* C31: extract_share_id returns the last group of the first pattern of
\* URL_PATTERNS, in list order, that matches the text: once a pattern
\* matches, neither a later pattern nor the fallback to the query parameters
\* and the path decides the result.
C31_FirstMatchDecides ==
    call.fn = "extract_share_id" =>
        LET matching == {k \in 1..Len(URL_PATTERNS) :
                            SearchGroupI(URL_PATTERNS[k], call.arg).ok}
            first == CHOOSE k \in matching : \A j \in matching : k <= j
        IN  matching # {} =>
               call.val = Some(SearchGroupI(URL_PATTERNS[first], call.arg).v)

\* C32: every strategy that picks a file from a file list (API v1, API v2,
\* mobile API) picks the entry of the common rule: the first file whose
\* name ends in a known video extension, else the first entry that is not
\* a directory, else the first entry; API v1's own selection and
\* _find_video_in_list agree on every file list.
C32_SelectionFollowsTheCommonRule ==
    call.fn \in {"method_api_v1", "method_api_v2", "method_mobile_api"} =>
        LET file_list == call.arg
            known == {".mp4", ".mkv", ".avi", ".mov", ".wmv", ".flv",
                      ".webm", ".m4v"}
            files == {i \in 1..Len(file_list) : file_list[i].isdir = 0}
            videos == {i \in files :
                          \E ext \in known :
                             EndsWith(Lower(file_list[i].server_filename),
                                      ext)}
            least(S) == CHOOSE i \in S : \A j \in S : i <= j
            rule == IF videos # {} THEN file_list[least(videos)]
                    ELSE IF files # {} THEN file_list[least(files)]
                    ELSE file_list[1]
        IN  /\ call.val = rule
            /\ call.val = find_video_in_list(file_list)

(***************************************************************************)
(* The wrapper's policy and the configuration.                             *)
(***************************************************************************)
\* config.MAX_RETRIES and config.RETRY_DELAY (in milliseconds)
MAX_RETRIES == 5
RETRY_DELAY == 2000

\* C35: the wrapper's policy is the configured one.  A method whose body
\* raises on every attempt hands its exception to extract after exactly
\* config.MAX_RETRIES invocations, and the wait after its first failed
\* attempt is config.RETRY_DELAY plus the jitter of less than a second.
C35_PolicyIsTheConfiguredOne ==
    [][\A r \in Reqs :
         /\ (pc[r] = "body" /\ last_raiser'[r] # last_raiser[r]) =>
               tries[r] = MAX_RETRIES
         /\ (pc[r] = "body" /\ pc'[r] = "sleep" /\ attempt[r] = 0) =>
               /\ sleeping'[r] >= RETRY_DELAY
               /\ sleeping'[r] < RETRY_DELAY + 1000
      ]_vars

\* C37: an invalid result is not retried.  In the step in which a method's
\* body first returns instead of raising, and what it returns is not valid,
\* the wrapper hands the value to extract at once: there is no sleep, the
\* method is not invoked again, and extract is in the first attempt of the
\* next method or, after the last method, over.  The wrapper sleeps only
\* after an attempt that raised, and only a sleep is followed by another
\* invocation of the same method.
C37_InvalidResultIsNotRetried ==
    [][\A r \in Reqs :
         /\ (/\ pc[r] = "body"
             /\ all_raised[r] /\ ~all_raised'[r]
             /\ outcome'[r].kind # "ok") =>
               /\ ~is_valid(result'[r])
               /\ result'[r] # NoVideo
               /\ pc'[r] # "sleep"
               /\ sleeping'[r] = 0
               /\ IF method[r] < NMethods
                  THEN /\ pc'[r] = "body"
                       /\ method'[r] = method[r] + 1
                       /\ attempt'[r] = 0
                       /\ tries'[r] = 1
                  ELSE /\ pc'[r] = "done"
                       /\ outcome'[r].kind = "AllFailed"
         /\ (pc[r] = "body" /\ pc'[r] = "sleep") =>
               /\ last_exception'[r] = Error(method[r], attempt[r])
               /\ all_raised'[r] = all_raised[r]
               /\ result'[r] = result[r]
         /\ (method'[r] = method[r] /\ tries'[r] = tries[r] + 1) =>
               /\ pc[r] = "sleep"
               /\ last_exception[r] # NoError
      ]_vars

\* the first method returned a result without a link in its first attempt,
\* never having raised; the second method is in its first attempt and no
\* time has passed
C37_Witness ==
    /\ pc[1] = "body"
    /\ method[1] = 2
    /\ tries[1] = 1
    /\ ~all_raised[1]
    /\ last_raiser[1] = 0
    /\ result[1] # NoVideo /\ ~is_valid(result[1])
    /\ now = 0 /\ calls[1] = 1

\* C38: a request refused by the rate limit leaves user_last_request as it
\* is, so what is recorded for a user is always the time of the user's last
\* accepted request and a message is accepted as soon as 3 seconds have
\* passed since then, however many were refused in between; the recorded
\* time changes only in the step that accepts a message of that user, to
\* the time of that message, also when the message is then turned away for
\* holding no link.
C38_RefusalLeavesTheRecord ==
    [][/\ \A id \in Users :
            /\ accepted[id].n > 0 => user_last_request[id] = accepted[id].at
            /\ accepted'[id].refused # accepted[id].refused =>
                  /\ user_last_request' = user_last_request
                  /\ clock' - user_last_request[id] < 3
            /\ user_last_request'[id] # user_last_request[id] =>
                  /\ accepted'[id].n = accepted[id].n + 1
                  /\ accepted'[id].refused = accepted[id].refused
            /\ accepted'[id].n # accepted[id].n =>
                  /\ user_last_request'[id] = clock'
                  /\ clock' - user_last_request[id] >= 3
                  /\ \A o \in Users \ {id} :
                        user_last_request'[o] = user_last_request[o]
                  /\ \E r \in Reqs :
                        /\ report'[r] \in {"nolink", "processing"}
                        /\ bpc[r] = "idle"
                        /\ bpc'[r] = (IF report'[r] = "nolink"
                                      THEN "idle" ELSE "gate")
      ]_vars

\* user 101 was accepted, refused 2 seconds later and accepted again 2
\* seconds after that, with a message that holds no link
C38_Witness ==
    /\ msgs = 3
    /\ accepted[101].n = 2
    /\ accepted[101].refused = 1
    /\ accepted[102].n = 0 /\ accepted[102].refused = 0
    /\ accepted[101].at = clock
    /\ user_last_request[101] = clock
    /\ \E r \in Reqs : report[r] = "nolink" /\ bpc[r] = "idle"

(***************************************************************************)
(* C39: every message that passed the rate limit and the link check       *)
(* causes exactly one log_request call.  No request makes a second call   *)
(* for one message; once the handler is through with the message one call *)
(* was made, and its success argument is TRUE exactly when extract         *)
(* returned a valid result and the deadline did not fire.                  *)
(***************************************************************************)
C39_ExactlyOneLogPerMessage ==
    \A r \in Reqs :
       /\ Len(logged[r]) <= 1
       /\ (bpc[r] = "idle" /\ report[r] \notin {"none", "wait", "nolink"})
             => /\ Len(logged[r]) = 1
                /\ logged[r][1] = (/\ outcome[r].kind \in {"ok", "hit"}
                                   /\ is_valid(outcome[r].value)
                                   /\ deadline[r] # "fired")

(***************************************************************************)
(* C36: every extract call terminates when each invocation of a method    *)
(* does.  A call invokes at most 23 method bodies (7 methods with 3        *)
(* attempts and 2 attempts of browser emulation) and sleeps at most 15     *)
(* times; a call under way ends, and a call that ended has returned a      *)
(* valid result or raised.                                                 *)
(***************************************************************************)
C36_ExtractTerminates ==
    /\ [](\A r \in Callers :
             /\ count[r].bodies <= 23
             /\ count[r].sleeps <= 15
             /\ pc[r] = "done"
                   => \/ /\ outcome[r].kind \in {"ok", "hit"}
                         /\ is_valid(outcome[r].value)
                      \/ outcome[r].kind \in
                            {"InvalidUrl", "NoShareId", "AllFailed"})
    /\ \A r \in Callers : pc[r] \in {"body", "sleep"} ~> pc[r] = "done"

\* a call that went through every attempt of every method: 23 invocations,
\* 15 sleeps, and the aggregate error
C36_Witness ==
    /\ pc[1] = "done"
    /\ outcome[1].kind = "AllFailed"
    /\ count[1] = [bodies |-> 23, sleeps |-> 15]
    /\ tries[1] = 0
    /\ calls[1] = 1

(***************************************************************************)
(* C33: every invocation of browser emulation works with a browser of its *)
(* own and leaves none behind.  A browser is open only while the request   *)
(* that launched it is inside an invocation of the method, a request has   *)
(* at most one open browser, and the browser an invocation works with is   *)
(* open, was launched by it and is no other request's.  The step that     *)
(* binds `browser` launches a new one.  Whatever way the invocation ends - *)
(* a result, an error, a cancellation - the step that hands its outcome to *)
(* the wrapper or to extract leaves the request without an open browser.   *)
(***************************************************************************)
C33_BrowserPerInvocation ==
    /\ [](\A r \in Reqs :
             /\ \A b \in pw.open :
                   b.by = r => /\ InBrowser(r)
                               /\ pw.at[r] # "out"
                               /\ \A c \in pw.open : c.by = r => c = b
             /\ pw.at[r] \in {"page", "click", "content", "close"}
                   => [id |-> pw.own[r], by |-> r] \in pw.open
             /\ pw.own[r] # 0
                   => /\ [id |-> pw.own[r], by |-> r] \in pw.open
                      /\ \A q \in Reqs \ {r} :
                            /\ pw.own[q] # pw.own[r]
                            /\ [id |-> pw.own[r], by |-> q] \notin pw.open)
    /\ [][\A r \in Reqs :
             /\ (pw'.own[r] # pw.own[r] /\ pw'.own[r] # 0)
                   => /\ pw.at[r] = "launch"
                      /\ pw.own[r] = 0
                      /\ \A b \in pw.open : b.id # pw'.own[r]
                      /\ \A q \in Reqs : pw.own[q] # pw'.own[r]
             /\ (InBrowser(r) /\ ~InBrowser(r)')
                   => /\ \A b \in pw'.open : b.by # r
                      /\ pw'.own[r] = 0
                      /\ pw'.at[r] = "out"
             /\ (InBrowser(r) /\ InBrowser(r)')
                   => (\A b \in pw.open : b.by = r => b \in pw'.open)
                         \/ pw.at[r] = "close"]_vars

\* request 1's call was cancelled by the deadline inside an invocation of
\* browser emulation, after the first seven methods had raised, and no
\* browser of its invocations is left; three browsers were launched so
\* far, and request 2 is working with the third, its own
C33_Witness ==
    /\ pc[1] = "done"
    /\ outcome[1].kind = "Cancelled"
    /\ deadline[1] = "fired"
    /\ last_raiser[1] = 7
    /\ pw.at[1] = "out"
    /\ pw.at[2] = "content"
    /\ pw.launched = 3
    /\ pw.open = {[id |-> 3, by |-> 2]}
    /\ pw.own = <<0, 3>>

(***************************************************************************)
(* C34: with USE_BROWSER_FALLBACK off, browser emulation is disabled      *)
(* entirely.  No browser is launched or open and no request gets past the *)
(* method's first line; an invocation of the method only raises, into the  *)
(* wrapper's sleep or into extract, whose call then ends with the          *)
(* aggregate error; and a result a call returns is that of one of the      *)
(* first seven methods.                                                    *)
(***************************************************************************)
C34_DisabledBrowserOnlyFails ==
    /\ [](~pw.enabled
             => /\ pw.launched = 0
                /\ pw.open = {}
                /\ \A r \in Reqs :
                      /\ pw.at[r] = "out"
                      /\ pw.own[r] = 0
                      /\ outcome[r].kind = "ok"
                            => outcome[r].by \in 1..(NMethods - 1))
    /\ [][~pw.enabled
             => \A r \in Reqs :
                   (InBrowser(r) /\ ~InBrowser(r)')
                      => /\ result'[r] = result[r]
                         /\ link_cache' = link_cache
                         /\ \/ /\ pc'[r] = "sleep"
                               /\ last_exception'[r] =
                                     Error(NMethods, attempt[r])
                            \/ /\ pc'[r] = "done"
                               /\ outcome'[r] =
                                     AllFailed(Error(NMethods, attempt[r]))]_vars

\* the flag is off and request 1's call went through all eight methods:
\* browser emulation raised twice without a browser, and the call ended
\* with the aggregate error naming its second failure
C34_Witness ==
    /\ ~pw.enabled
    /\ pw.launched = 0
    /\ pc[1] = "done"
    /\ outcome[1] = AllFailed(Error(NMethods, 1))
    /\ last_raiser[1] = NMethods
    /\ invoked[1] = 1..NMethods
    /\ pc[2] = "idle"

====
